---- MODULE Spec2Model ----
(***************************************************************************)
(* Model of the fontconfig Pattern type (src/fontconfig/init.go, second    *)
(* file of the concatenation: "type Pattern map[Object]*valueList") and of *)
(* its operations: Add, AddList, Del, Duplicate, Hash, GetAt, the typed    *)
(* accessors and SubstituteDefault.                                        *)
(*                                                                         *)
(* A Pattern is a Go map from Object to a pointer to a valueList.  The     *)
(* pointers are modelled by a heap: a function from addresses to value     *)
(* lists.  A pattern is a function from its keyed objects to addresses.    *)
(* The iteration order of a Go map is unspecified: wherever the code       *)
(* ranges over a pattern, the model takes the order as an input.           *)
(***************************************************************************)
EXTENDS Integers, Sequences, FiniteSets, TLC

VARIABLES
    heap,    \* the value lists, by address
    p, q,    \* two patterns
    env,     \* the default language and the program name of the process
    res,     \* the last operation and what it returned
    planner, \* the shape planner: segment properties, chosen script, stages
    buffer,  \* the glyph buffer being shaped
    config,  \* the configuration being loaded
    fonts    \* the candidate patterns of a font set and the fonts built

\* the state outside the two patterns
shaping == <<planner, buffer, config, fonts>>

vars == <<heap, p, q, env, res, planner, buffer, config, fonts>>

(***************************************************************************)
(* Bounds of the model.                                                    *)
(***************************************************************************)
\* The size of a pattern is the number of values it holds, an object keyed to an
\* empty list counting for one.
\* largest pattern SubstituteDefault is applied to
MaxSize == 3
\* largest size of each of the two patterns that are hashed and duplicated
MaxPairSize == 2
\* largest pattern the accessors read
MaxLookupSize == 2

(***************************************************************************)
(* Values.  A Value is a tagged union; float64 payloads are modelled as    *)
(* exact fractions n/d (d > 0), with the IEEE-754 results of a division by *)
(* zero: 1/0 is +Inf, -1/0 is -Inf and 0/0 is NaN.  Rounding is not        *)
(* modelled.                                                               *)
(***************************************************************************)
RECURSIVE GCD(_, _)
GCD(a, b) == IF b = 0 THEN a ELSE GCD(b, a % b)

Abs(x) == IF x < 0 THEN -x ELSE x

Sign(x) == IF x < 0 THEN -1 ELSE IF x > 0 THEN 1 ELSE 0

\* the fraction n/d in lowest terms, with a non-negative denominator
Frac(n, d) ==
    IF d = 0 THEN [n |-> Sign(n), d |-> 0]
    ELSE LET g == GCD(Abs(n), Abs(d))
         IN  [n |-> Sign(d) * (n \div g), d |-> Abs(d) \div g]

\* float64 multiplication x * y
FMul(x, y) == Frac(x.n * y.n, x.d * y.d)

\* float64 division x / y
FDiv(x, y) == Frac(x.n * y.d, x.d * y.n)

\* float64 addition x + y of two finite numbers
FAdd(x, y) == Frac(x.n * y.d + y.n * x.d, x.d * y.d)

mkValue(kind, s, a, b) == [kind |-> kind, s |-> s, a |-> a, b |-> b]

Zero == Frac(0, 1)

\* the nil interface value
NilValue == mkValue("nil", "", Zero, Zero)

IntValue(i) == mkValue("Int", "", Frac(i, 1), Zero)

FloatValue(f) == mkValue("Float", "", f, Zero)

BoolValue(b) == mkValue("Bool", "", Frac(b, 1), Zero)

StringValue(s) == mkValue("String", s, Zero, Zero)

RangeValue(begin, end) == mkValue("Range", "", begin, end)

MatrixValue(name) == mkValue("Matrix", name, Zero, Zero)

CharsetValue(name) == mkValue("Charset", name, Zero, Zero)

\* a valueElt: a Value and its Binding
Elt(v, binding) == [Value |-> v, Binding |-> binding]

ValueBindingStrong == "strong"

ValueBindingWeak == "weak"

(***************************************************************************)
(* Objects.  The declaration of Object, of the built-in object constants   *)
(* and of Object.hasValidType is not part of the listed sources: the       *)
(* identifiers and the admissible kinds below follow the specification     *)
(* (section 3, "Object", "Value") and the kinds SubstituteDefault itself   *)
(* stores or reads for each object.                                        *)
(***************************************************************************)
IntObjects == {"WEIGHT", "SLANT", "WIDTH", "FONTVERSION", "HINT_STYLE", "ORDER"}

BoolObjects == {"HINTING", "VERTICAL_LAYOUT", "AUTOHINT", "GLOBAL_ADVANCE",
                "EMBEDDED_BITMAP", "DECORATIVE", "SYMBOL", "VARIABLE"}

FloatObjects == {"SCALE", "DPI", "PIXEL_SIZE"}

StringObjects == {"FAMILY", "STYLE", "FULLNAME", "NAMELANG", "FAMILYLANG", "STYLELANG",
                  "FULLNAMELANG", "PRGNAME"}

\* caller-defined objects: FirstCustomObject and the one after it
CustomObjects == {"CUSTOM0", "CUSTOM1"}

Objects == IntObjects \cup BoolObjects \cup FloatObjects \cup {"SIZE"}
             \cup StringObjects \cup CustomObjects

BuiltinOrder == <<"FAMILY", "FAMILYLANG", "STYLE", "STYLELANG", "FULLNAME",
                  "FULLNAMELANG", "SLANT", "WEIGHT",
                  "WIDTH", "SIZE", "PIXEL_SIZE", "HINT_STYLE", "HINTING",
                  "VERTICAL_LAYOUT", "AUTOHINT", "GLOBAL_ADVANCE", "DPI", "SCALE",
                  "FONTVERSION", "EMBEDDED_BITMAP", "DECORATIVE", "NAMELANG", "PRGNAME",
                  "SYMBOL", "VARIABLE", "ORDER">>

FirstCustomObject == 300

\* the integer an Object constant stands for
ObjectId(o) ==
    IF o = "CUSTOM0" THEN FirstCustomObject
    ELSE IF o = "CUSTOM1" THEN FirstCustomObject + 1
    ELSE CHOOSE i \in 1..Len(BuiltinOrder) : BuiltinOrder[i] = o

Kinds == {"Bool", "Int", "Float", "String", "Range", "Matrix", "Charset"}

\* the kinds of value an object admits
hasValidType(object, value) ==
    CASE object \in IntObjects    -> value.kind = "Int"
      [] object \in BoolObjects   -> value.kind = "Bool"
      [] object \in FloatObjects  -> value.kind = "Float"
      [] object = "SIZE"          -> value.kind \in {"Float", "Range"}
      [] object \in StringObjects -> value.kind = "String"
      [] OTHER                    -> value.kind \in Kinds

(***************************************************************************)
(* The heap of value lists and the patterns that point into it.            *)
(***************************************************************************)
\* the nil *valueList
Nil == 0

\* NewPattern: an empty map
NewPattern == [o \in {} |-> Nil]

EmptyHeap == <<>>

\* p[object]: the pointer stored for object, nil when the map has no entry
Ref(pat, object) == IF object \in DOMAIN pat THEN pat[object] ELSE Nil

\* the address a new valueList gets: the lowest one not in use
Alloc(h) ==
    CHOOSE a \in 1..(Cardinality(DOMAIN h) + 1) :
        a \notin DOMAIN h /\ \A b \in 1..(a - 1) : b \in DOMAIN h

\* a pattern together with the heap it points into
Store(h, pat) == [heap |-> h, pat |-> pat]

\* getVals: the value list of object, the nil (empty) list when there is no entry
getVals(st, object) ==
    IF Ref(st.pat, object) = Nil THEN <<>> ELSE st.heap[Ref(st.pat, object)]

\* what a pattern holds: for each keyed object its value list
Content(h, pat) == [o \in DOMAIN pat |-> h[pat[o]]]

\* the canonical content: the objects that hold at least one value, with their lists
Canon(h, pat) ==
    [o \in {x \in DOMAIN pat : Len(h[pat[x]]) > 0} |-> h[pat[o]]]

\* valueList.prepend
prepend(e, list) == list \o e

AddListUnchecked(st, object, list, appendMode) ==
    LET e == Ref(st.pat, object)
        a == IF e = Nil THEN Alloc(st.heap) ELSE e
        old == IF e = Nil THEN <<>> ELSE st.heap[e]
        new == IF appendMode THEN old \o list ELSE list \o old
    IN  [heap |-> (a :> new) @@ st.heap, pat |-> (object :> a) @@ st.pat]

\* AddList applied to the pattern of store st
AddList(st, object, list, appendMode) ==
    IF \E i \in 1..Len(list) : ~hasValidType(object, list[i].Value)
    THEN st
    ELSE LET e == Ref(st.pat, object)
             a == IF e = Nil THEN Alloc(st.heap) ELSE e
             old == IF e = Nil THEN <<>> ELSE st.heap[e]
             new == IF appendMode THEN old \o list ELSE prepend(old, list)
         IN  Store((a :> new) @@ st.heap, (object :> a) @@ st.pat)

addWithBinding(st, object, value, binding, appendMode) ==
    AddList(st, object, <<Elt(value, binding)>>, appendMode)

Add(st, object, value, appendMode) ==
    addWithBinding(st, object, value, ValueBindingStrong, appendMode)

AddBool(st, object, value) == Add(st, object, BoolValue(IF value THEN 1 ELSE 0), TRUE)

AddInteger(st, object, value) == Add(st, object, IntValue(value), TRUE)

AddFloat(st, object, value) == Add(st, object, FloatValue(value), TRUE)

AddString(st, object, value) == Add(st, object, StringValue(value), TRUE)

\* Del: delete(p, object); the list itself stays on the heap until collected
Del(st, object) ==
    Store(st.heap, [o \in DOMAIN st.pat \ {object} |-> st.pat[o]])

(***************************************************************************)
(* GetAt and the typed accessors.  Indexing a slice with a negative index  *)
(* is a run-time panic in Go.                                              *)
(***************************************************************************)
ResultMatch == "ResultMatch"

ResultNoMatch == "ResultNoMatch"

ResultNoId == "ResultNoId"

ResultTypeMismatch == "ResultTypeMismatch"

Panic == "panic: index out of range"

GetAt(st, object, id) ==
    LET e == Ref(st.pat, object)
    IN  IF e = Nil THEN [v |-> NilValue, r |-> ResultNoMatch]
        ELSE IF id >= Len(st.heap[e]) THEN [v |-> NilValue, r |-> ResultNoId]
        ELSE IF id < 0 THEN [v |-> NilValue, r |-> Panic]
        ELSE [v |-> st.heap[e][id + 1].Value, r |-> ResultMatch]

\* the zero value of the Go type that holds a value of the kind
ZeroOf(kind) ==
    CASE kind = "Bool"    -> BoolValue(0)
      [] kind = "Int"     -> IntValue(0)
      [] kind = "Float"   -> FloatValue(Zero)
      [] kind = "String"  -> StringValue("")
      [] kind = "Matrix"  -> MatrixValue("")
      [] kind = "Charset" -> CharsetValue("")

GetTypedConverting(st, object, kind) ==
    LET g == GetAt(st, object, 0)
    IN  IF g.r # ResultMatch THEN [out |-> ZeroOf(kind), ok |-> FALSE]
        ELSE [out |-> g.v, ok |-> TRUE]

\* the body shared by GetBool, GetString, GetInt, GetFloat, GetMatrix, GetCharset:
\* GetAt at index 0, then the type assertion v.(T)
GetTyped(st, object, kind) ==
    LET g == GetAt(st, object, 0)
    IN  IF g.r # ResultMatch THEN [out |-> ZeroOf(kind), ok |-> FALSE]
        ELSE IF g.v.kind = kind THEN [out |-> g.v, ok |-> TRUE]
        ELSE [out |-> ZeroOf(kind), ok |-> FALSE]

GetBool(st, object) == GetTyped(st, object, "Bool")

GetString(st, object) == GetTyped(st, object, "String")

GetInt(st, object) == GetTyped(st, object, "Int")

GetFloat(st, object) == GetTyped(st, object, "Float")

GetMatrix(st, object) == GetTyped(st, object, "Matrix")

GetCharset(st, object) == GetTyped(st, object, "Charset")

GetAtString(st, object, id) ==
    LET g == GetAt(st, object, id)
    IN  IF g.r # ResultMatch THEN [out |-> "", r |-> g.r]
        ELSE IF g.v.kind # "String" THEN [out |-> "", r |-> ResultTypeMismatch]
        ELSE [out |-> g.v.s, r |-> ResultMatch]

(***************************************************************************)
(* SubstituteDefault.  The environment e holds what getDefaultLang() and   *)
(* getProgramName() return.                                                *)
(***************************************************************************)
WEIGHT_NORMAL == 80

SLANT_ROMAN == 0

WIDTH_NORMAL == 100

HINT_FULL == 3

MaxFontVersion == 2147483647

boolDefaults ==
    << [field |-> "HINTING", value |-> TRUE],
       [field |-> "VERTICAL_LAYOUT", value |-> FALSE],
       [field |-> "AUTOHINT", value |-> FALSE],
       [field |-> "GLOBAL_ADVANCE", value |-> TRUE],
       [field |-> "EMBEDDED_BITMAP", value |-> TRUE],
       [field |-> "DECORATIVE", value |-> FALSE],
       [field |-> "SYMBOL", value |-> FALSE],
       [field |-> "VARIABLE", value |-> FALSE] >>

UnsetAlways(st, object) == TRUE

\* the test "pattern[object] == nil" that guards each default
Unset(st, object) == Ref(st.pat, object) = Nil

\* the loop over boolDefaults, from entry i on
RECURSIVE addBoolDefaults(_, _)
addBoolDefaults(st, i) ==
    IF i > Len(boolDefaults) THEN st
    ELSE IF Unset(st, boolDefaults[i].field)
         THEN addBoolDefaults(AddBool(st, boolDefaults[i].field, boolDefaults[i].value),
                              i + 1)
         ELSE addBoolDefaults(st, i + 1)

\* "if pattern[object] == nil { pattern.AddInteger(object, value) }"
defaultInteger(st, object, value) ==
    IF Unset(st, object) THEN AddInteger(st, object, value) ELSE st

\* the strong name language and the weak "en-us" of FAMILYLANG, STYLELANG, FULLNAMELANG
substituteLang(st, object, namelang) ==
    IF Unset(st, object)
    THEN addWithBinding(Add(st, object, namelang, TRUE), object,
                        StringValue("en-us"), ValueBindingWeak, TRUE)
    ELSE st

\* lines 587-619: the point size and the pixel size
substituteSize(st) ==
    LET sizeObj == GetAt(st, "SIZE", 0).v
        size0 == CASE sizeObj.kind = "Float" -> sizeObj.a
                   [] sizeObj.kind = "Range" -> FMul(FAdd(sizeObj.a, sizeObj.b), Frac(1, 2))
                   [] OTHER -> Frac(12, 1)
        gs == GetFloat(st, "SCALE")
        scale == IF gs.ok THEN gs.out.a ELSE Frac(1, 1)
        gd == GetFloat(st, "DPI")
        dpi == IF gd.ok THEN gd.out.a ELSE Frac(75, 1)
        pixelSize == getVals(st, "PIXEL_SIZE")
        a1 == AddFloat(Del(st, "SCALE"), "SCALE", scale)
        a2 == AddFloat(Del(a1, "DPI"), "DPI", dpi)
        a3 == AddFloat(a2, "PIXEL_SIZE", FMul(FMul(size0, scale), FDiv(dpi, Frac(72, 1))))
        sizeF == IF pixelSize[1].Value.kind = "Float" THEN pixelSize[1].Value.a ELSE Zero
        s1 == IF Len(pixelSize) = 0 THEN a3 ELSE st
        size == IF Len(pixelSize) = 0 THEN size0
                ELSE FDiv(FMul(FDiv(sizeF, dpi), Frac(72, 1)), scale)
    IN  AddFloat(Del(s1, "SIZE"), "SIZE", size)

\* the steps of SubstituteDefault, in the order of the source
substituteSteps ==
    <<"WEIGHT", "SLANT", "WIDTH", "boolDefaults", "size", "FONTVERSION", "HINT_STYLE",
      "NAMELANG", "lang", "PRGNAME", "ORDER">>

\* one step of SubstituteDefault, applied to the store the steps before it left
substituteStep(st, e, step) ==
    CASE step = "WEIGHT"       -> defaultInteger(st, "WEIGHT", WEIGHT_NORMAL)
      [] step = "SLANT"        -> defaultInteger(st, "SLANT", SLANT_ROMAN)
      [] step = "WIDTH"        -> defaultInteger(st, "WIDTH", WIDTH_NORMAL)
      [] step = "boolDefaults" -> addBoolDefaults(st, 1)
      [] step = "size"         -> substituteSize(st)
      [] step = "FONTVERSION"  -> defaultInteger(st, "FONTVERSION", MaxFontVersion)
      [] step = "HINT_STYLE"   -> defaultInteger(st, "HINT_STYLE", HINT_FULL)
      [] step = "NAMELANG"     ->
             IF Unset(st, "NAMELANG") THEN AddString(st, "NAMELANG", e.lang) ELSE st
      [] step = "lang"         ->
             LET namelang == GetAt(st, "NAMELANG", 0).v
             IN  substituteLang(
                     substituteLang(substituteLang(st, "FAMILYLANG", namelang),
                                    "STYLELANG", namelang),
                     "FULLNAMELANG", namelang)
      [] step = "PRGNAME"      ->
             IF Unset(st, "PRGNAME") /\ e.prg # ""
             THEN AddString(st, "PRGNAME", e.prg) ELSE st
      [] step = "ORDER"        -> defaultInteger(st, "ORDER", 0)

\* the steps from the i-th on; a step that stores nothing leaves the store as it is
RECURSIVE substituteFrom(_, _, _)
substituteFrom(st, e, i) ==
    IF i > Len(substituteSteps) THEN st
    ELSE LET next == substituteStep(st, e, substituteSteps[i])
         IN  IF next = st THEN substituteFrom(st, e, i + 1)
             ELSE substituteFrom(next, e, i + 1)

SubstituteDefault(st, e) == substituteFrom(st, e, 1)

(***************************************************************************)
(* Duplicate.  valueList.duplicate is not part of the listed sources: per  *)
(* the specification (section 3, "Lifecycle") it is a deep copy, here a    *)
(* new heap cell holding the same elements.                                *)
(***************************************************************************)
\* every object, in increasing order of identifier
ObjectOrder == BuiltinOrder \o <<"CUSTOM0", "CUSTOM1">>

\* the keys of a pattern in increasing object order
KeysInOrder(pat) == SelectSeq(ObjectOrder, LAMBDA o : o \in DOMAIN pat)

\* l.duplicate(): the copy of the list at address a, put in a new cell of h
duplicate(h, a) ==
    [x \in DOMAIN h \cup {Alloc(h)} |-> IF x = Alloc(h) THEN h[a] ELSE h[x]]

RECURSIVE duplicateFrom(_, _, _, _)
duplicateFrom(h, pat, keys, out) ==
    IF keys = <<>> THEN Store(h, out)
    ELSE LET o == Head(keys)
         IN  duplicateFrom(duplicate(h, pat[o]), pat, Tail(keys),
                           [x \in DOMAIN out \cup {o} |->
                                IF x = o THEN Alloc(h) ELSE out[x]])

DuplicateShared(h, pat) == Store(h, pat)

\* the loop "for o, l := range p { out[o] = l.duplicate() }"; the order of the range
\* decides only which address each copy gets
Duplicate(h, pat) == duplicateFrom(h, pat, KeysInOrder(pat), NewPattern)

(***************************************************************************)
(* Hash.  valueList.Hash is not part of the listed sources: per the        *)
(* specification (section 3, "Pattern") it is a hash of the object's value *)
(* list that identifies the list; here the concatenation of a              *)
(* self-delimiting encoding of each element.                               *)
(***************************************************************************)
U16(n) == <<(n \div 256) % 256, n % 256>>

U32(n) == <<(n \div 16777216) % 256, (n \div 65536) % 256, (n \div 256) % 256, n % 256>>

StringBytes(s) ==
    CASE s = "x"     -> <<120>>
      [] s = "y"     -> <<121>>
      [] s = "xy"    -> <<120, 121>>
      [] s = "de"    -> <<100, 101>>
      [] s = "en"    -> <<101, 110>>
      [] s = "fr"    -> <<102, 114>>
      [] s = "app"   -> <<97, 112, 112>>
      [] s = "en-us" -> <<101, 110, 45, 117, 115>>
      [] s = "m"     -> <<109>>
      [] s = "c"     -> <<99>>
      [] OTHER       -> <<>>

KindTag(kind) ==
    CASE kind = "Bool" -> 1 [] kind = "Int" -> 2 [] kind = "Float" -> 3
      [] kind = "String" -> 4 [] kind = "Range" -> 5 [] kind = "Matrix" -> 6
      [] kind = "Charset" -> 7 [] OTHER -> 0

FracBytes(f) == <<Sign(f.n) + 1>> \o U32(Abs(f.n)) \o U32(f.d)

eltHash(e) ==
    <<KindTag(e.Value.kind)>>
      \o U16(Len(StringBytes(e.Value.s))) \o StringBytes(e.Value.s)
      \o FracBytes(e.Value.a) \o FracBytes(e.Value.b)
      \o <<IF e.Binding = ValueBindingWeak THEN 0 ELSE 1>>

RECURSIVE valueListHash(_)
valueListHash(list) ==
    IF list = <<>> THEN <<>> ELSE eltHash(Head(list)) \o valueListHash(Tail(list))

\* the orders in which a range over the pattern may visit its keys
RangeOrders(pat) ==
    {f \in [1..Cardinality(DOMAIN pat) -> DOMAIN pat] :
        \A o \in DOMAIN pat : \E i \in DOMAIN f : f[i] = o}

sortedKeysUnsorted(pat, iter) == iter

\* sortedKeys: the keys, collected in the order iter of the range, then sorted
sortedKeys(pat, iter) == SortSeq(iter, LAMBDA x, y : ObjectId(x) < ObjectId(y))

\* the loop of Hash over the sorted keys
RECURSIVE hashKeys(_, _, _)
hashKeys(st, keys, hash) ==
    IF keys = <<>> THEN hash
    ELSE LET v == getVals(st, Head(keys))
             tmp == valueListHash(v)
             buf == U16(ObjectId(Head(keys))) \o U32(Len(tmp))
         IN  hashKeys(st, Tail(keys),
                 IF Len(v) = 0 THEN hash ELSE hash \o buf \o tmp)

HashKeysOnly(st, iter) == sortedKeys(st.pat, iter)

\* Hash: the concatenation, over the sorted keys that hold values, of the object id,
\* the length of the value list's hash and that hash
Hash(st, iter) == hashKeys(st, sortedKeys(st.pat, iter), <<>>)

(***************************************************************************)
(* The operations as actions.  t names the pattern an operation is called  *)
(* on.  A program cannot observe the address of a value list, only whether *)
(* two pointers are equal: after every operation the cells no pattern      *)
(* points to are collected and the cells left are numbered in the order    *)
(* in which p, then q, point to them.                                      *)
(***************************************************************************)
RefSeq(pat) == [i \in 1..Cardinality(DOMAIN pat) |-> pat[KeysInOrder(pat)[i]]]

\* the addresses of refs, each once, in the order of their first occurrence
RECURSIVE FirstOccurrences(_, _)
FirstOccurrences(refs, out) ==
    IF refs = <<>> THEN out
    ELSE FirstOccurrences(Tail(refs),
                          IF \E i \in DOMAIN out : out[i] = Head(refs) THEN out
                          ELSE Append(out, Head(refs)))

Collect(h, pp, qq) ==
    LET order == FirstOccurrences(RefSeq(pp) \o RefSeq(qq), <<>>)
        New(a) == CHOOSE i \in DOMAIN order : order[i] = a
    IN  [heap |-> [n \in DOMAIN order |-> h[order[n]]],
         p |-> [o \in DOMAIN pp |-> New(pp[o])],
         q |-> [o \in DOMAIN qq |-> New(qq[o])]]

Target(t) == Store(heap, IF t = "p" THEN p ELSE q)

Commit(t, st, r) ==
    LET c == Collect(st.heap, IF t = "p" THEN st.pat ELSE p, IF t = "q" THEN st.pat ELSE q)
    IN  /\ heap' = c.heap
        /\ p' = c.p
        /\ q' = c.q
        /\ res' = r
        /\ env' = env
        /\ UNCHANGED shaping

\* the size of the pattern of a store
Size(st) ==
    Cardinality(UNION {{<<o, i>> : i \in 1..(IF Len(st.heap[st.pat[o]]) = 0 THEN 1
                                            ELSE Len(st.heap[st.pat[o]]))} :
                       o \in DOMAIN st.pat})

\* the values the actions pass for an object
InputValues(object) ==
    CASE object = "WEIGHT"     -> {IntValue(200)}
      [] object = "SIZE"       -> {FloatValue(Frac(7, 1)),
                                   RangeValue(Frac(10, 1), Frac(14, 1))}
      [] object = "SCALE"      -> {FloatValue(Frac(0, 1)), FloatValue(Frac(2, 1))}
      [] object = "DPI"        -> {FloatValue(Frac(96, 1))}
      [] object = "PIXEL_SIZE" -> {FloatValue(Frac(20, 1))}
      [] object = "NAMELANG"   -> {StringValue("de")}
      [] object = "FAMILYLANG" -> {StringValue("en")}
      [] object = "FAMILY"     -> {StringValue("x"), StringValue("y")}
      [] object = "CUSTOM1"    -> {StringValue("y")}
      [] object = "CUSTOM0"    -> {BoolValue(1), IntValue(1), FloatValue(Frac(3, 2)),
                                   StringValue("x"), MatrixValue("m"), CharsetValue("c")}
      [] OTHER                 -> {}

\* the lists the actions pass to AddList: the empty list and one weak singleton
InputLists(object) ==
    {<<>>, <<Elt(CHOOSE v \in InputValues(object) : TRUE, ValueBindingWeak)>>}

DefaultsObjects == {"WEIGHT", "SIZE", "SCALE", "DPI", "PIXEL_SIZE", "NAMELANG",
                    "FAMILYLANG"}

PairObjects == {"FAMILY", "CUSTOM1"}

LookupObjects == {"FAMILY", "SIZE", "CUSTOM0"}

\* what an Add, AddList or Del on pattern t leaves in res: the pattern it was called
\* on and what the other pattern held before the call
Mutated(t) ==
    [op |-> "Mutate", t |-> t, other |-> Content(heap, IF t = "p" THEN q ELSE p)]

DoAdd(t, object, value, appendMode, bound) ==
    LET st == Add(Target(t), object, value, appendMode)
    IN  /\ Size(st) <= bound
        /\ Commit(t, st, Mutated(t))

DoAddList(t, object, list, appendMode, bound) ==
    LET st == AddList(Target(t), object, list, appendMode)
    IN  /\ Size(st) <= bound
        /\ Commit(t, st, Mutated(t))

DoDel(t, object) ==
    /\ object \in DOMAIN Target(t).pat
    /\ Commit(t, Del(Target(t), object), Mutated(t))

\* q = p.Duplicate(); the pattern q named before is dropped
DoDuplicate ==
    LET st == Duplicate(heap, p)
        c == Collect(st.heap, p, st.pat)
    IN  /\ heap' = c.heap
        /\ p' = c.p
        /\ q' = c.q
        /\ res' = [op |-> "Duplicate", t |-> "q"]
        /\ env' = env
        /\ UNCHANGED shaping

\* p.Hash() and q.Hash()
DoHash ==
    /\ \E ip \in RangeOrders(p), iq \in RangeOrders(q) :
           res' = [op |-> "Hash", hp |-> Hash(Store(heap, p), ip),
                   hq |-> Hash(Store(heap, q), iq)]
    /\ UNCHANGED <<heap, p, q, env>>
    /\ UNCHANGED shaping

\* p.SubstituteDefault(); res keeps what p held before the call
DoSubstituteDefault ==
    Commit("p", SubstituteDefault(Target("p"), env),
           [op |-> "SubstituteDefault", pre |-> Content(heap, p)])

TypedKinds == {"Bool", "String", "Int", "Float", "Matrix", "Charset"}

\* GetAt and GetAtString at (object, id), and the six typed accessors at object
DoLookup(object, id) ==
    /\ res' = [op |-> "Lookup", object |-> object, id |-> id,
               at |-> GetAt(Target("p"), object, id),
               atString |-> GetAtString(Target("p"), object, id),
               typed |-> [k \in TypedKinds |-> GetTyped(Target("p"), object, k)]]
    /\ UNCHANGED <<heap, p, q, env>>
    /\ UNCHANGED shaping

InitPatterns ==
    /\ heap = EmptyHeap
    /\ p = NewPattern
    /\ q = NewPattern
    /\ res = [op |-> "NewPattern"]

\* nothing is being shaped or loaded
NoShaping ==
    /\ planner = [script |-> "Zyyy"]
    /\ buffer = [Info |-> <<>>]
    /\ config = [loaded |-> FALSE]
    /\ fonts = <<>>

(***************************************************************************)
(* Spec: two patterns built side by side, hashed and duplicated.           *)
(***************************************************************************)
Init ==
    /\ InitPatterns
    /\ env = [lang |-> "fr", prg |-> "app"]
    /\ NoShaping

Next ==
    \/ \E t \in {"p", "q"}, object \in PairObjects :
           \E value \in InputValues(object) :
               DoAdd(t, object, value, TRUE, MaxPairSize)
    \/ \E t \in {"p", "q"}, object \in PairObjects, appendMode \in BOOLEAN :
           \E list \in InputLists(object) :
               DoAddList(t, object, list, appendMode, MaxPairSize)
    \/ \E t \in {"p", "q"}, object \in PairObjects : DoDel(t, object)
    \/ DoDuplicate
    \/ DoHash

Spec == Init /\ [][Next]_vars

(***************************************************************************)
(* SpecDefaults: one pattern is built, then SubstituteDefault is applied   *)
(* to it, once or repeatedly.                                              *)
(***************************************************************************)
InitDefaults == Init

Building == res.op # "SubstituteDefault"

NextDefaults ==
    \/ \E object \in DefaultsObjects :
           \E value \in InputValues(object) :
               Building /\ DoAdd("p", object, value, TRUE, MaxSize)
    \/ \E object \in DefaultsObjects, appendMode \in BOOLEAN :
           \E list \in InputLists(object) :
               Building /\ DoAddList("p", object, list, appendMode, MaxSize)
    \/ \E object \in DefaultsObjects : Building /\ DoDel("p", object)
    \/ DoSubstituteDefault

SpecDefaults == InitDefaults /\ [][NextDefaults]_vars

(***************************************************************************)
(* SpecLookup: one pattern is built and read.                              *)
(***************************************************************************)
LookupIds == -1 .. MaxLookupSize

NextLookup ==
    \/ \E object \in LookupObjects, appendMode \in BOOLEAN :
           \E value \in InputValues(object) :
               DoAdd("p", object, value, appendMode, MaxLookupSize)
    \/ \E object \in LookupObjects, appendMode \in BOOLEAN :
           \E list \in InputLists(object) :
               DoAddList("p", object, list, appendMode, MaxLookupSize)
    \/ \E object \in LookupObjects : DoDel("p", object)
    \/ \E object \in LookupObjects, id \in LookupIds : DoLookup(object, id)

SpecLookup == Init /\ [][NextLookup]_vars

(***************************************************************************)
(* Claims about SubstituteDefault, checked under SpecDefaults.             *)
(***************************************************************************)
Substituted == res.op = "SubstituteDefault"

\* the value list p holds for an object now, empty when it has none
Now(object) == getVals(Store(heap, p), object)

\* the value list p held for an object before the last SubstituteDefault
Before(object) == IF object \in DOMAIN res.pre THEN res.pre[object] ELSE <<>>

\* the first value of a list when it is a Float, else the fallback
FirstFloat(list, fallback) ==
    IF Len(list) > 0 /\ list[1].Value.kind = "Float" THEN list[1].Value.a ELSE fallback

\* C1: applying SubstituteDefault to the result of SubstituteDefault yields the same
\* pattern: the same objects, each with the same values, bindings and order.
C1_Idempotent ==
    Substituted =>
        LET again == SubstituteDefault(Store(heap, p), env)
        IN  Content(again.heap, again.pat) = Content(heap, p)

C3_SizesConsistent ==
    Substituted =>
        /\ Len(Now("PIXEL_SIZE")) > 0
        /\ Len(Now("SIZE")) > 0
        /\ Now("PIXEL_SIZE")[1].Value.a =
               FDiv(FMul(FMul(Now("SIZE")[1].Value.a, FirstFloat(Now("SCALE"), Frac(1, 1))),
                         FirstFloat(Now("DPI"), Frac(75, 1))),
                    Frac(72, 1))
        /\ Len(Before("PIXEL_SIZE")) = 0 => Len(Now("SCALE")) > 0 /\ Len(Now("DPI")) > 0

LangObjects == {"FAMILYLANG", "STYLELANG", "FULLNAMELANG"}

\* C4: each of FAMILYLANG, STYLELANG, FULLNAMELANG that was unset holds after
\* SubstituteDefault the name language (the first NAMELANG value if there was one,
\* else the default language) strong, then "en-us" weak; one that was set is unchanged.
C4_LangFallback ==
    Substituted =>
        LET namelang == IF Len(Before("NAMELANG")) > 0
                        THEN Before("NAMELANG")[1].Value
                        ELSE StringValue(env.lang)
        IN  \A object \in LangObjects :
                IF object \in DOMAIN res.pre
                THEN Now(object) = res.pre[object]
                ELSE Now(object) = <<Elt(namelang, ValueBindingStrong),
                                     Elt(StringValue("en-us"), ValueBindingWeak)>>

\* the single strong value SubstituteDefault supplies for an object
DefaultOf(object) ==
    CASE object = "WEIGHT"      -> IntValue(WEIGHT_NORMAL)
      [] object = "SLANT"       -> IntValue(SLANT_ROMAN)
      [] object = "WIDTH"       -> IntValue(WIDTH_NORMAL)
      [] object = "FONTVERSION" -> IntValue(MaxFontVersion)
      [] object = "HINT_STYLE"  -> IntValue(HINT_FULL)
      [] object = "ORDER"       -> IntValue(0)
      [] object \in {"HINTING", "GLOBAL_ADVANCE", "EMBEDDED_BITMAP"} -> BoolValue(1)
      [] OTHER                  -> BoolValue(0)

\* C5: after SubstituteDefault each of the fourteen defaulted objects has at least
\* one value, and each one that had none holds exactly its default, strong.
C5_DefaultsSupplied ==
    Substituted =>
        \A object \in IntObjects \cup BoolObjects :
            /\ Len(Now(object)) >= 1
            /\ Len(Before(object)) = 0 =>
                   Now(object) = <<Elt(DefaultOf(object), ValueBindingStrong)>>

(***************************************************************************)
(* Claims about Hash and Duplicate, checked under Spec.                    *)
(***************************************************************************)
Hashed == res.op = "Hash"

\* the values a pattern holds, without their bindings: for each object that holds at
\* least one value, the sequence of its values
ValuesOf(h, pat) ==
    [o \in DOMAIN Canon(h, pat) |-> [i \in DOMAIN h[pat[o]] |-> h[pat[o]][i].Value]]

\* C6: two patterns that hold the same value list (values, bindings, order) for every
\* object have the same Hash, whatever the order in which their keys are visited.
C6_HashOrderIndependent ==
    Hashed /\ Canon(heap, p) = Canon(heap, q) => res.hp = res.hq

\* C6 witness: p and q both hold FAMILY: "x" and CUSTOM1: "y" and were hashed.
C6_Witness ==
    /\ Hashed
    /\ Content(heap, p) = [o \in {"FAMILY", "CUSTOM1"} |->
                              IF o = "FAMILY"
                              THEN <<Elt(StringValue("x"), ValueBindingStrong)>>
                              ELSE <<Elt(StringValue("y"), ValueBindingStrong)>>]
    /\ Content(heap, q) = Content(heap, p)
    /\ res.hp = res.hq

SameReads ==
    /\ \A ip \in RangeOrders(p), iq \in RangeOrders(q) :
           Hash(Store(heap, p), ip) = Hash(Store(heap, q), iq)
    /\ \A object \in PairObjects, id \in 0..MaxPairSize :
           GetAt(Store(heap, p), object, id) = GetAt(Store(heap, q), object, id)

\* C8: right after q = p.Duplicate() the two patterns have the same Hash and the same
\* GetAt results, and every Add, AddList or Del on one of the two patterns leaves the
\* objects, values, bindings and value order of the other as they were.
C8_DuplicateIndependent ==
    /\ res.op = "Duplicate" => SameReads
    /\ res.op = "Mutate" => Content(heap, IF res.t = "p" THEN q ELSE p) = res.other

\* C8 witness: q was just made by Duplicate from a pattern of two objects, holds what
\* p holds, and shares no value list with p.
C8_Witness ==
    /\ res.op = "Duplicate"
    /\ DOMAIN p = {"FAMILY", "CUSTOM1"}
    /\ Len(heap[p["FAMILY"]]) = 1
    /\ Content(heap, q) = Content(heap, p)
    /\ \A o1 \in DOMAIN p, o2 \in DOMAIN q : p[o1] # q[o2]

(***************************************************************************)
(* Claims about GetAt and the typed accessors, checked under SpecLookup.   *)
(***************************************************************************)
Looked == res.op = "Lookup"

\* the object has no value: no entry, or an entry with an empty list
NoValue(object) == Len(getVals(Store(heap, p), object)) = 0

\* the first value of the object is of another kind than the accessor's
OtherKind(object, kind) ==
    /\ ~NoValue(object)
    /\ getVals(Store(heap, p), object)[1].Value.kind # kind

\* C9 as stated: a typed accessor never returns the same result pair for an object
\* that has no value and for an object whose first value is of another kind.
C9_Distinguishable ==
    Looked =>
        \A kind \in TypedKinds, other \in LookupObjects :
            NoValue(res.object) /\ OtherKind(other, kind) =>
                res.typed[kind] # GetTyped(Store(heap, p), other, kind)

\* C9 as amended: for an object that has no value and for one whose first value is of
\* another kind a typed accessor returns the same pair, the zero value and false; the
\* two cases are told apart by GetAt (ResultNoMatch or ResultNoId against ResultMatch
\* with the stored value) and by GetAtString (ResultTypeMismatch for a first value
\* that is not a string).  A first value of the accessor's kind is returned with true.
C9_SamePairButGetAtDiffers ==
    Looked /\ res.id = 0 =>
        /\ \A kind \in TypedKinds :
               /\ NoValue(res.object) \/ OtherKind(res.object, kind) =>
                      res.typed[kind] = [out |-> ZeroOf(kind), ok |-> FALSE]
               /\ ~NoValue(res.object) /\ ~OtherKind(res.object, kind) =>
                      /\ res.typed[kind].ok
                      /\ res.typed[kind].out = getVals(Store(heap, p), res.object)[1].Value
        /\ NoValue(res.object) =>
               /\ res.at.r = (IF res.object \in DOMAIN p THEN ResultNoId ELSE ResultNoMatch)
               /\ res.atString.r = res.at.r
        /\ ~NoValue(res.object) =>
               /\ res.at.r = ResultMatch
               /\ res.at.v = getVals(Store(heap, p), res.object)[1].Value
               /\ OtherKind(res.object, "String") => res.atString.r = ResultTypeMismatch

\* C9 witness: the accessors were called on an object whose first value is an Int:
\* GetBool returned the pair it returns for an absent object, GetInt the value.
C9_Witness ==
    /\ Looked
    /\ res.id = 0
    /\ res.object = "CUSTOM0"
    /\ OtherKind("CUSTOM0", "Bool")
    /\ NoValue("FAMILY")
    /\ res.typed["Bool"] = GetTyped(Store(heap, p), "FAMILY", "Bool")
    /\ res.typed["Int"].ok
    /\ res.at.r = ResultMatch

\* C10: for every object and every integer id GetAt returns ResultNoMatch with no
\* value when the object has no entry, ResultNoId when id is not a position of the
\* object's value list, and ResultMatch with the value at position id otherwise.
C10_GetAtTotal ==
    Looked =>
        res.at =
            IF res.object \notin DOMAIN p THEN [v |-> NilValue, r |-> ResultNoMatch]
            ELSE IF res.id \notin 0..(Len(heap[p[res.object]]) - 1)
                 THEN [v |-> NilValue, r |-> ResultNoId]
                 ELSE [v |-> heap[p[res.object]][res.id + 1].Value, r |-> ResultMatch]

(***************************************************************************)
(* The other mutation entry points of a pattern: append, addFullname,      *)
(* BuildPattern and addWithTable.  valueList.insert is not part of the     *)
(* listed sources: per the specification (section 3, "Value") a value of a *)
(* kind the object does not admit is dropped at insertion time.            *)
(***************************************************************************)
\* the inner loop of append: "for _, v := range *list { p.addWithBinding(...) }"
RECURSIVE appendValues(_, _, _)
appendValues(st, object, list) ==
    IF list = <<>> THEN st
    ELSE appendValues(addWithBinding(st, object, Head(list).Value, Head(list).Binding, TRUE),
                      object, Tail(list))

\* the outer loop of append over the keys of s; s points into the heap of st
RECURSIVE appendFrom(_, _, _)
appendFrom(st, s, keys) ==
    IF keys = <<>> THEN st
    ELSE appendFrom(appendValues(st, Head(keys), st.heap[s[Head(keys)]]), s, Tail(keys))

\* p.append(s)
append(st, s) == appendFrom(st, s, KeysInOrder(s))

\* the loops of addFullname over FAMILYLANG and STYLELANG: from index n on, the index
\* of the first "en"; 0 when the values end, or one is not a string, before an "en"
RECURSIVE scanLang(_, _, _)
scanLang(st, object, n) ==
    LET g == GetAtString(st, object, n)
    IN  IF g.r # ResultMatch \/ g.out = "" THEN 0
        ELSE IF g.out = "en" THEN n
        ELSE scanLang(st, object, n + 1)

\* the bytes of family, then, unless style is "Regular", a blank and the bytes of style
fullName(family, style) ==
    IF style = "Regular" THEN family
    ELSE CASE <<family, style>> = <<"x", "x">> -> "x x"
           [] <<family, style>> = <<"x", "y">> -> "x y"
           [] <<family, style>> = <<"y", "x">> -> "y x"
           [] <<family, style>> = <<"y", "y">> -> "y y"
           [] OTHER -> "family style"

\* addFullname: the store it leaves and the boolean it returns
addFullname(st) ==
    IF GetBool(st, "VARIABLE").out # BoolValue(0) THEN [st |-> st, ok |-> TRUE]
    ELSE LET n1 == scanLang(st, "FAMILYLANG", 0)
             family == GetAtString(st, "FAMILY", n1)
             n2 == scanLang(st, "STYLELANG", n1)
             style == GetAtString(st, "STYLE", n2)
             s1 == Add(Del(st, "FULLNAME"), "FULLNAME",
                       StringValue(fullName(family.out, style.out)), TRUE)
         IN  IF family.r # ResultMatch \/ style.r # ResultMatch
             THEN [st |-> st, ok |-> FALSE]
             ELSE [st |-> Add(Del(s1, "FULLNAMELANG"), "FULLNAMELANG",
                              StringValue("en"), TRUE),
                   ok |-> TRUE]

\* the loop of BuildPattern over its elements
RECURSIVE buildFrom(_, _)
buildFrom(st, elements) ==
    IF elements = <<>> THEN st
    ELSE buildFrom(Add(st, Head(elements).Object, Head(elements).Value, TRUE),
                   Tail(elements))

\* BuildPattern: a new pattern in the heap h
BuildPattern(h, elements) == buildFrom(Store(h, NewPattern), elements)

\* the values of list that object admits
admitted(object, list) == SelectSeq(list, LAMBDA v : hasValidType(object, v.Value))

\* valueList.insert at position -1: at the end of the list, or at its head
insert(e, appendMode, list, object) ==
    IF appendMode THEN e \o admitted(object, list) ELSE admitted(object, list) \o e

\* addWithTable with a nil familyTable
addWithTable(st, object, list, appendMode) ==
    LET e == Ref(st.pat, object)
        a == IF e = Nil THEN Alloc(st.heap) ELSE e
        old == IF e = Nil THEN <<>> ELSE st.heap[e]
    IN  Store((a :> insert(old, appendMode, list, object)) @@ st.heap,
              (object :> a) @@ st.pat)

(***************************************************************************)
(* SpecKinds: two patterns mutated through every entry point, with values  *)
(* of kinds their objects admit and of kinds they do not.                  *)
(***************************************************************************)
\* largest size of a pattern before a call of an entry point
MaxKindSize == 2
\* largest size of the pattern passed to append
MaxArgSize == 1

KindObjects == {"FAMILY", "STYLE"}

KindValues == {StringValue("x"), IntValue(1)}

\* the lists passed to AddList and addWithTable: one or two values
KindLists ==
    {<<Elt(v, ValueBindingStrong)>> : v \in KindValues}
      \cup {<<Elt(v, ValueBindingStrong), Elt(w, ValueBindingWeak)>> :
                v \in KindValues, w \in KindValues}

\* the element lists passed to BuildPattern
KindElements ==
    LET El == {[Object |-> o, Value |-> v] : o \in KindObjects, v \in KindValues}
    IN  {<<>>} \cup {<<x>> : x \in El} \cup {<<x, y>> : x \in El, y \in El}

Called(name, t, object, list, appendMode) ==
    [op |-> name, t |-> t, object |-> object, list |-> list, appendMode |-> appendMode,
     pre |-> getVals(Target(t), object)]

DoAddKind(t, object, value, appendMode) ==
    /\ Size(Target(t)) < (IF t = "q" THEN MaxArgSize ELSE MaxKindSize)
    /\ Commit(t, Add(Target(t), object, value, appendMode),
              Called("Add", t, object, <<Elt(value, ValueBindingStrong)>>, appendMode))

DoAddListKind(t, object, list, appendMode) ==
    /\ Size(Target(t)) < MaxKindSize
    /\ Commit(t, AddList(Target(t), object, list, appendMode),
              Called("AddList", t, object, list, appendMode))

\* AddBool, AddInteger, AddFloat and AddString
DoAddTyped(t, object) ==
    /\ Size(Target(t)) < MaxKindSize
    /\ \E st \in {AddBool(Target(t), object, TRUE), AddInteger(Target(t), object, 1),
                  AddFloat(Target(t), object, Frac(3, 2)),
                  AddString(Target(t), object, "x")} :
           Commit(t, st, [op |-> "AddTyped", t |-> t])

DoAddWithTable(t, object, list, appendMode) ==
    /\ Size(Target(t)) < MaxKindSize
    /\ Commit(t, addWithTable(Target(t), object, list, appendMode),
              [op |-> "addWithTable", t |-> t])

\* p = BuildPattern(elements); the pattern p named before is dropped
DoBuildPattern(elements) ==
    Commit("p", BuildPattern(heap, elements), [op |-> "BuildPattern", t |-> "p"])

\* p.append(q)
DoAppend ==
    /\ Size(Target("p")) < MaxKindSize
    /\ Commit("p", append(Target("p"), q), [op |-> "append", t |-> "p"])

DoAddFullname ==
    LET r == addFullname(Target("p"))
    IN  Commit("p", r.st, [op |-> "addFullname", t |-> "p", ok |-> r.ok])

DoSubstituteDefaultKind ==
    Commit("p", SubstituteDefault(Target("p"), env), [op |-> "SubstituteDefault", t |-> "p"])

\* q, the argument of append, is built by Add alone
NextKinds ==
    \/ \E t \in {"p", "q"}, object \in KindObjects, value \in KindValues :
           DoAddKind(t, object, value, TRUE)
    \/ \E object \in KindObjects, list \in KindLists, appendMode \in BOOLEAN :
           DoAddListKind("p", object, list, appendMode)
    \/ \E object \in KindObjects : DoAddTyped("p", object)
    \/ \E object \in KindObjects, list \in KindLists, appendMode \in BOOLEAN :
           DoAddWithTable("p", object, list, appendMode)
    \/ \E elements \in KindElements : DoBuildPattern(elements)
    \/ DoAppend
    \/ DoAddFullname
    \/ DoSubstituteDefaultKind

SpecKinds == Init /\ [][NextKinds]_vars

(***************************************************************************)
(* Claims about the kinds of the values stored, checked under SpecKinds.   *)
(***************************************************************************)
\* C11: Add and AddList store every value of the call that the object admits, in the
\* order of the call, at the end (append) or at the head (prepend) of the object's
\* list, and store no value the object does not admit.
C11_MismatchDropsValueOnly ==
    res.op \in {"Add", "AddList"} =>
        getVals(Target(res.t), res.object) =
            IF res.appendMode THEN res.pre \o admitted(res.object, res.list)
            ELSE admitted(res.object, res.list) \o res.pre

\* every value a pattern holds is of a kind its object admits
Admissible(pat) ==
    \A o \in DOMAIN pat : \A i \in DOMAIN heap[pat[o]] : hasValidType(o, heap[pat[o]][i].Value)

ascii ==
    [c \in {"2", "3", "D", "F", "L", "Q", "T", "a", "b", "c", "d", "e", "f", "g", "h",
            "i", "l", "m", "n", "o", "p", "r", "s", "t", "v", "w", "y"} |->
        CASE c = "2" -> 50  [] c = "3" -> 51  [] c = "D" -> 68  [] c = "F" -> 70
          [] c = "L" -> 76  [] c = "Q" -> 81  [] c = "T" -> 84  [] c = "a" -> 97
          [] c = "b" -> 98  [] c = "d" -> 100 [] c = "e" -> 101 [] c = "g" -> 103
          [] c = "h" -> 104 [] c = "i" -> 105 [] c = "l" -> 108 [] c = "m" -> 109
          [] c = "n" -> 110 [] c = "r" -> 114 [] c = "t" -> 116 [] c = "v" -> 118
          [] c = "y" -> 121 [] c = "c" -> 99  [] c = "f" -> 102 [] c = "o" -> 111
          [] c = "p" -> 112 [] c = "s" -> 115 [] c = "w" -> 119]

newTag(bytes) ==
    ascii[bytes[1]] * 16777216 + ascii[bytes[2]] * 65536 + ascii[bytes[3]] * 256
        + ascii[bytes[4]]

HB_OT_TAG_DEFAULT_SCRIPT == newTag(<<"D", "F", "L", "T">>)

scriptMyanmar_Zawgyi == "Qaag"

isHorizontal(direction) == direction \in {"LTR", "RTL"}

IndicScripts ==
    {"Bengali", "Devanagari", "Gujarati", "Gurmukhi", "Kannada", "Malayalam", "Oriya",
     "Tamil", "Telugu", "Sinhala"}

UseScripts ==
    {"Tibetan", "Mongolian", "Buhid", "Hanunoo", "Tagalog", "Tagbanwa", "Limbu", "Tai_Le",
     "Buginese", "Kharoshthi", "Syloti_Nagri", "Tifinagh", "Balinese", "Nko", "Phags_Pa",
     "Cham", "Kayah_Li", "Lepcha", "Rejang", "Saurashtra", "Sundanese",
     "Egyptian_Hieroglyphs", "Javanese", "Kaithi", "Meetei_Mayek", "Tai_Tham", "Tai_Viet",
     "Batak", "Brahmi", "Mandaic", "Chakma", "Miao", "Sharada", "Takri", "Duployan",
     "Grantha", "Khojki", "Khudawadi", "Mahajani", "Manichaean", "Modi", "Pahawh_Hmong",
     "Psalter_Pahlavi", "Siddham", "Tirhuta", "Ahom", "Multani", "Adlam", "Bhaiksuki",
     "Marchen", "Newa", "Masaram_Gondi", "Soyombo", "Zanabazar_Square", "Dogra",
     "Gunjala_Gondi", "Hanifi_Rohingya", "Makasar", "Medefaidrin", "Old_Sogdian",
     "Sogdian", "Elymaic", "Nandinagari", "Nyiakeng_Puachue_Hmong", "Wancho",
     "Chorasmian", "Dives_Akuru"}

\* the shaper every script outside the switch gets
complexShapedDefault == "default"

\* the choice with the Indic scripts never sent to the default shaper
categorizeIndicAlways(pl) ==
    LET script == pl.props.script
        chosen == pl.map_.chosen_script[1]
    IN  CASE script \in {"Arabic", "Syriac"} ->
                 IF (chosen # HB_OT_TAG_DEFAULT_SCRIPT \/ script = "Arabic")
                        /\ isHorizontal(pl.props.direction)
                 THEN "arabic" ELSE complexShapedDefault
          [] script \in {"Thai", "Lao"} -> "thai"
          [] script = "Hangul" -> "hangul"
          [] script = "Hebrew" -> "hebrew"
          [] script \in IndicScripts -> IF chosen % 256 = ascii["3"] THEN "use" ELSE "indic"
          [] script = "Khmer" -> "khmer"
          [] script = "Myanmar" ->
                 IF chosen \in {newTag(<<"D", "F", "L", "T">>), newTag(<<"l", "a", "t", "n">>),
                                newTag(<<"m", "y", "m", "r">>)}
                 THEN complexShapedDefault ELSE "myanmar"
          [] script = scriptMyanmar_Zawgyi -> "myanmar_zawgyi"
          [] script \in UseScripts ->
                 IF chosen \in {newTag(<<"D", "F", "L", "T">>), newTag(<<"l", "a", "t", "n">>)}
                 THEN complexShapedDefault ELSE "use"
          [] OTHER -> complexShapedDefault

hb_ot_shape_complex_categorize(pl) ==
    LET script == pl.props.script
        chosen == pl.map_.chosen_script[1]
    IN  CASE script \in {"Arabic", "Syriac"} ->
                 IF (chosen # HB_OT_TAG_DEFAULT_SCRIPT \/ script = "Arabic")
                        /\ isHorizontal(pl.props.direction)
                 THEN "arabic" ELSE complexShapedDefault
          [] script \in {"Thai", "Lao"} -> "thai"
          [] script = "Hangul" -> "hangul"
          [] script = "Hebrew" -> "hebrew"
          [] script \in IndicScripts ->
                 IF chosen \in {newTag(<<"D", "F", "L", "T">>), newTag(<<"l", "a", "t", "n">>)}
                 THEN complexShapedDefault
                 ELSE IF chosen % 256 = ascii["3"] THEN "use" ELSE "indic"
          [] script = "Khmer" -> "khmer"
          [] script = "Myanmar" ->
                 IF chosen \in {newTag(<<"D", "F", "L", "T">>), newTag(<<"l", "a", "t", "n">>),
                                newTag(<<"m", "y", "m", "r">>)}
                 THEN complexShapedDefault ELSE "myanmar"
          [] script = scriptMyanmar_Zawgyi -> "myanmar_zawgyi"
          [] script \in UseScripts ->
                 IF chosen \in {newTag(<<"D", "F", "L", "T">>), newTag(<<"l", "a", "t", "n">>)}
                 THEN complexShapedDefault ELSE "use"
          [] OTHER -> complexShapedDefault

(***************************************************************************)
(* SpecShaper: a planner for any script, chosen script tag and direction   *)
(* is categorized.                                                         *)
(***************************************************************************)
Scripts ==
    {"Arabic", "Syriac", "Thai", "Lao", "Hangul", "Hebrew", "Khmer", "Myanmar",
     scriptMyanmar_Zawgyi, "Latin", "Cyrillic", "Common"} \cup IndicScripts \cup UseScripts

ChosenTags ==
    {newTag(<<"D", "F", "L", "T">>), newTag(<<"l", "a", "t", "n">>),
     newTag(<<"m", "y", "m", "r">>), newTag(<<"m", "y", "m", "2">>),
     newTag(<<"a", "r", "a", "b">>), newTag(<<"d", "e", "v", "2">>),
     newTag(<<"d", "e", "v", "3">>), newTag(<<"t", "h", "a", "i">>)}

Directions == {"LTR", "RTL", "TTB", "BTT"}

InitShaper ==
    /\ InitPatterns
    /\ env = [lang |-> "fr", prg |-> "app"]
    /\ \E script \in Scripts, gsub \in ChosenTags, direction \in Directions :
           \E gpos \in {gsub, HB_OT_TAG_DEFAULT_SCRIPT} :
               planner = [props |-> [script |-> script, direction |-> direction],
                          map_ |-> [chosen_script |-> <<gsub, gpos>>]]
    /\ buffer = [Info |-> <<>>]
    /\ config = [loaded |-> FALSE]
    /\ fonts = <<>>

DoCategorize ==
    /\ res' = [op |-> "categorize", shaper |-> hb_ot_shape_complex_categorize(planner)]
    /\ UNCHANGED <<heap, p, q, env, shaping>>

NextShaper == DoCategorize

SpecShaper == InitShaper /\ [][NextShaper]_vars

(***************************************************************************)
(* Claims about the choice of the shaper, checked under SpecShaper.        *)
(***************************************************************************)
Categorized == res.op = "categorize"

DefaultTagChosen ==
    planner.map_.chosen_script[1] \in
        {newTag(<<"D", "F", "L", "T">>), newTag(<<"l", "a", "t", "n">>)}

\* the scripts that have a shaper of their own
DedicatedScripts ==
    {"Arabic", "Syriac", "Thai", "Lao", "Hangul", "Hebrew", "Khmer", "Myanmar",
     scriptMyanmar_Zawgyi} \cup IndicScripts \cup UseScripts

\* C13 as stated: for every script with a shaper of its own and every
\* direction, a chosen script tag of 'DFLT' or 'latn' selects the default
\* shaper.
C13_DefaultTagSelectsDefault ==
    (Categorized /\ planner.props.script \in DedicatedScripts /\ DefaultTagChosen)
        => res.shaper = complexShapedDefault

\* C13, amended: with 'DFLT' or 'latn' chosen, the Indic, Myanmar and USE
\* scripts get the default shaper in every direction; Arabic and Syriac get
\* it exactly when the direction is vertical or the script is Syriac with
\* 'DFLT'; Thai, Lao, Hangul, Hebrew, Khmer and Zawgyi keep their own shaper.
C13_DefaultTagByScript ==
    (Categorized /\ DefaultTagChosen) =>
        LET script == planner.props.script
        IN  /\ script \in IndicScripts \cup UseScripts \cup {"Myanmar"}
                   => res.shaper = complexShapedDefault
            /\ script \in {"Arabic", "Syriac"} =>
                   (res.shaper = complexShapedDefault <=>
                        \/ ~isHorizontal(planner.props.direction)
                        \/ /\ script = "Syriac"
                           /\ planner.map_.chosen_script[1] = newTag(<<"D", "F", "L", "T">>))
            /\ script \in {"Arabic", "Syriac"} => res.shaper \in {complexShapedDefault, "arabic"}
            /\ script \in {"Thai", "Lao"} => res.shaper = "thai"
            /\ script = "Hangul" => res.shaper = "hangul"
            /\ script = "Hebrew" => res.shaper = "hebrew"
            /\ script = "Khmer" => res.shaper = "khmer"
            /\ script = scriptMyanmar_Zawgyi => res.shaper = "myanmar_zawgyi"

C13_Witness ==
    /\ Categorized
    /\ planner.props.script = "Devanagari"
    /\ planner.map_.chosen_script[1] = newTag(<<"l", "a", "t", "n">>)
    /\ planner.props.direction = "TTB"
    /\ res.shaper = complexShapedDefault

(***************************************************************************)
(* The Myanmar shaper.  A glyph of the buffer is a record: AuxCategory is  *)
(* its Myanmar category, Aux2 the byte that holds first its position, then *)
(* its syllable (serial << 4 | type) and, once reordered, its position     *)
(* tag again; Mask is its unsafe-to-break flag; id is the place it had in  *)
(* the text, 0 for a glyph the shaper made.  Indices are those of the      *)
(* code: glyph i of the code is info[i + 1].                               *)
(***************************************************************************)
POS_PRE_M == 2
POS_PRE_C == 3
POS_BASE_C == 4
POS_AFTER_MAIN == 5
POS_BEFORE_SUB == 7
POS_BELOW_C == 8
POS_AFTER_SUB == 9

myanmarConsonantSyllable == 0
myanmarPunctuationCluster == 1
myanmarBrokenCluster == 2
myanmarNonMyanmarCluster == 3

myanmar_basic_features ==
    <<newTag(<<"r", "p", "h", "f">>), newTag(<<"p", "r", "e", "f">>),
      newTag(<<"b", "l", "w", "f">>), newTag(<<"p", "s", "t", "f">>)>>

myanmar_other_features ==
    <<newTag(<<"p", "r", "e", "s">>), newTag(<<"a", "b", "v", "s">>),
      newTag(<<"b", "l", "w", "s">>), newTag(<<"p", "s", "t", "s">>)>>

\* the three ways a stage is registered: each appends to the stages of the map
add_gsub_pause(map_, func) ==
    [map_ EXCEPT !.stages = Append(@, [kind |-> "pause", func |-> func, tag |-> 0,
                                       flags |-> "F_NONE", value |-> 0])]

enable_feature_ext(map_, tag, flags, value) ==
    [map_ EXCEPT !.stages = Append(@, [kind |-> "feature", func |-> "nil", tag |-> tag,
                                       flags |-> flags, value |-> value])]

enable_feature(map_, tag) == enable_feature_ext(map_, tag, "F_NONE", 1)

RECURSIVE basicFeatures(_, _)
basicFeatures(map_, i) ==
    IF i > Len(myanmar_basic_features) THEN map_
    ELSE basicFeatures(
             add_gsub_pause(enable_feature_ext(map_, myanmar_basic_features[i],
                                               "F_MANUAL_ZWJ", 1), "nil"),
             i + 1)

RECURSIVE otherFeatures(_, _)
otherFeatures(map_, i) ==
    IF i > Len(myanmar_other_features) THEN map_
    ELSE otherFeatures(enable_feature_ext(map_, myanmar_other_features[i],
                                          "F_MANUAL_ZWJ", 1), i + 1)

\* the features with no pause between the basic ones
collectFeaturesNoPause(map_) ==
    LET m1 == add_gsub_pause(map_, "setupSyllablesMyanmar")
        m2 == enable_feature(m1, newTag(<<"l", "o", "c", "l">>))
        m3 == enable_feature(m2, newTag(<<"c", "c", "m", "p">>))
        m4 == add_gsub_pause(m3, "reorderMyanmar")
        m5 == otherFeatures([m4 EXCEPT !.stages = @ \o
                 [i \in 1..4 |-> [kind |-> "feature", func |-> "nil",
                                  tag |-> myanmar_basic_features[i],
                                  flags |-> "F_MANUAL_ZWJ", value |-> 1]]], 1)
    IN  add_gsub_pause(m5, "_hb_clear_syllables")

collectFeatures(map_) ==
    LET m1 == add_gsub_pause(map_, "setupSyllablesMyanmar")
        m2 == enable_feature(m1, newTag(<<"l", "o", "c", "l">>))
        m3 == enable_feature(m2, newTag(<<"c", "c", "m", "p">>))
        m4 == add_gsub_pause(m3, "reorderMyanmar")
        m5 == basicFeatures(m4, 1)
        m6 == add_gsub_pause(m5, "_hb_clear_syllables")
    IN  otherFeatures(m6, 1)

\* info[lo .. hi-1].Aux2 = v
setAux2(info, lo, hi, v) ==
    [k \in DOMAIN info |->
        IF lo <= k - 1 /\ k - 1 < hi THEN [info[k] EXCEPT !.Aux2 = v] ELSE info[k]]

\* the serial counted up with no wrap but the one of its eight bits
foundSyllableNoWrap(syllableType, ts, te, info, syllableSerial) ==
    [info |-> setAux2(info, ts, te, (syllableSerial * 16 + syllableType) % 256),
     syllableSerial |-> (syllableSerial + 1) % 256]

foundSyllableMyanmar(syllableType, ts, te, info, syllableSerial) ==
    [info |-> setAux2(info, ts, te, (syllableSerial * 16 + syllableType) % 256),
     syllableSerial |-> IF syllableSerial + 1 = 16 THEN 1 ELSE syllableSerial + 1]

\* the syllables the scanner finds: seg.split glyphs outside any Myanmar
\* syllable, then one syllable of type seg.type up to the end of the buffer
findSyllablesMyanmar(info, seg) ==
    LET first == IF seg.split > 0
                 THEN foundSyllableMyanmar(myanmarNonMyanmarCluster, 0, seg.split, info, 1)
                 ELSE [info |-> info, syllableSerial |-> 1]
    IN  IF seg.split < Len(info)
        THEN foundSyllableMyanmar(seg.type, seg.split, Len(info), first.info,
                                  first.syllableSerial).info
        ELSE first.info

\* the end of the syllable that starts at start
next_syllable(info, start) ==
    LET later == {e \in (start + 1)..(Len(info) - 1) : info[e + 1].Aux2 # info[start + 1].Aux2}
    IN  IF later = {} THEN Len(info) ELSE CHOOSE e \in later : \A o \in later : e <= o

\* every pair of neighbours of info[start .. end-1] is marked
UnsafeToBreak(info, start, end) ==
    IF end - start < 2 THEN info
    ELSE [k \in DOMAIN info |->
             IF start <= k - 1 /\ k - 1 < end THEN [info[k] EXCEPT !.Mask = TRUE]
             ELSE info[k]]

RECURSIVE markSyllables(_, _)
markSyllables(info, start) ==
    IF start >= Len(info) THEN info
    ELSE LET end == next_syllable(info, start)
         IN  markSyllables(UnsafeToBreak(info, start, end), end)

\* the syllables found and left without any mark
setupSyllablesUnmarked(info, seg) == findSyllablesMyanmar(info, seg)

setupSyllablesMyanmar(info, seg) == markSyllables(findSyllablesMyanmar(info, seg), 0)

is_consonant(g) == g.AuxCategory \in {"OT_C", "OT_Ra", "OT_GB"}

\* info[start .. end-1] sorted by Aux2, glyphs of equal Aux2 in their order
RECURSIVE sortedInsert(_, _)
sortedInsert(sorted, g) ==
    IF sorted = <<>> THEN <<g>>
    ELSE IF sorted[Len(sorted)].Aux2 <= g.Aux2 THEN Append(sorted, g)
    ELSE Append(sortedInsert(SubSeq(sorted, 1, Len(sorted) - 1), g), sorted[Len(sorted)])

RECURSIVE stableSort(_)
stableSort(glyphs) ==
    IF glyphs = <<>> THEN <<>>
    ELSE sortedInsert(stableSort(SubSeq(glyphs, 1, Len(glyphs) - 1)), glyphs[Len(glyphs)])

Sort(info, start, end) ==
    IF end <= start THEN info
    ELSE SubSeq(info, 1, start) \o stableSort(SubSeq(info, start + 1, end))
             \o SubSeq(info, end + 1, Len(info))

\* lines 263-296: the tags of info[i .. end-1]
RECURSIVE tagTail(_, _, _, _)
tagTail(info, i, end, pos) ==
    IF i >= end THEN info
    ELSE LET g == info[i + 1]
             set(v) == [info EXCEPT ![i + 1].Aux2 = v]
         IN  IF g.AuxCategory = "OT_MR" THEN tagTail(set(POS_PRE_C), i + 1, end, pos)
             ELSE IF g.Aux2 < POS_BASE_C THEN tagTail(info, i + 1, end, pos)
             ELSE IF g.AuxCategory = "OT_VS"
                  THEN tagTail(set(info[i].Aux2), i + 1, end, pos)
             ELSE IF pos = POS_AFTER_MAIN /\ g.AuxCategory = "OT_VBlw"
                  THEN tagTail(set(POS_BELOW_C), i + 1, end, POS_BELOW_C)
             ELSE IF pos = POS_BELOW_C /\ g.AuxCategory = "OT_A"
                  THEN tagTail(set(POS_BEFORE_SUB), i + 1, end, pos)
             ELSE IF pos = POS_BELOW_C /\ g.AuxCategory = "OT_VBlw"
                  THEN tagTail(set(pos), i + 1, end, pos)
             ELSE IF pos = POS_BELOW_C /\ g.AuxCategory # "OT_A"
                  THEN tagTail(set(POS_AFTER_SUB), i + 1, end, POS_AFTER_SUB)
             ELSE tagTail(set(pos), i + 1, end, pos)

initialReorderingConsonantSyllable(info, start, end0) ==
    LET hasReph == /\ start + 3 <= end0
                   /\ info[start + 1].AuxCategory = "OT_Ra"
                   /\ info[start + 2].AuxCategory = "OT_As"
                   /\ info[start + 3].AuxCategory = "OT_H"
        limit == IF hasReph THEN start + 3 ELSE start
        base0 == IF hasReph THEN start ELSE limit
        consonants == {i \in limit..(end0 - 1) : is_consonant(info[i + 1])}
        base == IF consonants = {} THEN base0
                ELSE CHOOSE i \in consonants : \A o \in consonants : i <= o
        \* line 246: end is assigned anew
        end == IF hasReph THEN start + 3 ELSE start
        info1 == setAux2(info, start, end, POS_AFTER_MAIN)
        i1 == IF start < end THEN end ELSE start
        info2 == setAux2(info1, i1, base, POS_PRE_C)
        i2 == IF i1 < base THEN base ELSE i1
        info3 == IF i2 < end THEN setAux2(info2, i2, i2 + 1, POS_BASE_C) ELSE info2
        i3 == IF i2 < end THEN i2 + 1 ELSE i2
    IN  Sort(tagTail(info3, i3, end, POS_AFTER_MAIN), start, end)

reorderSyllableMyanmar(info, start, end) ==
    IF info[start + 1].Aux2 % 16 \in {myanmarBrokenCluster, myanmarConsonantSyllable}
    THEN initialReorderingConsonantSyllable(info, start, end)
    ELSE info

\* a placeholder glyph of category OT_GB at the head of each broken cluster;
\* mask is the mark the new glyph gets
RECURSIVE hb_syllabic_insert_dotted_circles(_, _, _)
hb_syllabic_insert_dotted_circles(info, start, mask) ==
    IF start >= Len(info) THEN info
    ELSE LET end == next_syllable(info, start)
             circle == [AuxCategory |-> "OT_GB", Aux2 |-> info[start + 1].Aux2,
                        Mask |-> mask, id |-> 0]
         IN  IF info[start + 1].Aux2 % 16 = myanmarBrokenCluster
             THEN hb_syllabic_insert_dotted_circles(
                      SubSeq(info, 1, start) \o <<circle>> \o SubSeq(info, start + 1, Len(info)),
                      end + 1, mask)
             ELSE hb_syllabic_insert_dotted_circles(info, end, mask)

\* the syllables are walked as the iterator finds them: the end of each is
\* looked for before it is reordered
RECURSIVE reorderSyllables(_, _)
reorderSyllables(info, start) ==
    IF start >= Len(info) THEN info
    ELSE LET end == next_syllable(info, start)
         IN  reorderSyllables(reorderSyllableMyanmar(info, start, end), end)

reorderMyanmar(info, mask) ==
    reorderSyllables(hb_syllabic_insert_dotted_circles(info, 0, mask), 0)

(***************************************************************************)
(* SpecMyanmar: the shaper registers its stages, then the stages run in    *)
(* their order over a buffer of classified glyphs.                         *)
(***************************************************************************)
MaxTail == 3

Categories == {"OT_Ra", "OT_As", "OT_H", "OT_C", "OT_VBlw", "OT_VPre"}

\* the position setMyanmarProperties leaves in Aux2
positionOf(cat) ==
    CASE cat = "OT_VPre" -> POS_PRE_M
      [] cat = "OT_VBlw" -> POS_BELOW_C
      [] OTHER -> POS_BASE_C

Repha == <<"OT_Ra", "OT_As", "OT_H">>

Texts ==
    UNION {{head \o tail : tail \in [1..n -> Categories]} :
               head \in {<<>>, Repha}, n \in 0..MaxTail}

glyphsOf(text) ==
    [i \in 1..Len(text) |->
        [AuxCategory |-> text[i], Aux2 |-> positionOf(text[i]), Mask |-> FALSE, id |-> i]]

Segmentations ==
    [split : {0, 1}, type : {myanmarConsonantSyllable, myanmarBrokenCluster}]

InitMyanmar ==
    /\ InitPatterns
    /\ env = [lang |-> "fr", prg |-> "app"]
    /\ planner = [props |-> [script |-> "Myanmar", direction |-> "LTR"],
                  map_ |-> [chosen_script |-> <<newTag(<<"m", "y", "m", "2">>),
                                                newTag(<<"m", "y", "m", "2">>)>>,
                            stages |-> <<>>],
                  collected |-> FALSE, done |-> 0]
    /\ \E text \in Texts : buffer = [Info |-> glyphsOf(text)]
    /\ config = [loaded |-> FALSE]
    /\ fonts = <<>>

DoCollectFeatures ==
    /\ ~planner.collected
    /\ planner' = [planner EXCEPT !.map_ = collectFeatures(@), !.collected = TRUE]
    /\ res' = [op |-> "collectFeatures"]
    /\ UNCHANGED <<heap, p, q, env, buffer, config, fonts>>

\* the next stage of the plan runs: a pause calls its function, the lookups
\* of a feature are applied outside the shaper
DoStage ==
    /\ planner.collected
    /\ planner.done < Len(planner.map_.stages)
    /\ LET stage == planner.map_.stages[planner.done + 1]
       IN  \E seg \in Segmentations, mask \in BOOLEAN :
               /\ buffer' =
                      [Info |->
                          CASE stage.func = "setupSyllablesMyanmar" ->
                                   setupSyllablesMyanmar(buffer.Info, seg)
                            [] stage.func = "reorderMyanmar" -> reorderMyanmar(buffer.Info, mask)
                            [] OTHER -> buffer.Info]
               /\ res' = [op |-> "stage", stage |-> stage, pre |-> buffer.Info]
    /\ planner' = [planner EXCEPT !.done = @ + 1]
    /\ UNCHANGED <<heap, p, q, env, config, fonts>>

NextMyanmar ==
    \/ DoCollectFeatures
    \/ DoStage

SpecMyanmar == InitMyanmar /\ [][NextMyanmar]_vars

(***************************************************************************)
(* Claims about the Myanmar shaper, checked under SpecMyanmar.             *)
(***************************************************************************)
Ran(func) == res.op = "stage" /\ res.stage.func = func

CategoriesOf(info) == [i \in DOMAIN info |-> info[i].AuxCategory]

\* info is one syllable of the given type
OneSyllable(info, type) ==
    /\ info # <<>>
    /\ \A i \in DOMAIN info : info[i].Aux2 = info[1].Aux2
    /\ info[1].Aux2 >= 16
    /\ info[1].Aux2 % 16 = type

\* C14: a consonant syllable of categories Ra, Asat, Halant, Consonant,
\* VowelBelow is reordered to Consonant, Ra, Asat, Halant, VowelBelow.
C14_RephaAfterBase ==
    (/\ Ran("reorderMyanmar")
     /\ OneSyllable(res.pre, myanmarConsonantSyllable)
     /\ CategoriesOf(res.pre) = <<"OT_Ra", "OT_As", "OT_H", "OT_C", "OT_VBlw">>)
        => CategoriesOf(buffer.Info) = <<"OT_C", "OT_Ra", "OT_As", "OT_H", "OT_VBlw">>

\* the stage of the given function is among the stages that have run
Done(func) == \E i \in 1..planner.done : planner.map_.stages[i].func = func

Marked(info) == {i \in DOMAIN info : info[i].Mask}

\* the glyphs of info that lie in a syllable of two glyphs or more
InLongSyllable(info) ==
    {i \in DOMAIN info : \E j \in DOMAIN info : j # i /\ info[j].Aux2 = info[i].Aux2}

\* C15 as stated: the unsafe-to-break marks are applied after the dotted
\* circles are inserted and the cluster is reordered: no glyph is marked
\* before the reordering pause has run.
C15_MarkedAfterReorder == Marked(buffer.Info) # {} => Done("reorderMyanmar")

\* C15, amended: the marks are applied by the syllable-setup pause, before
\* the dotted circles are inserted and before the reordering: no glyph is
\* marked before that pause, it marks every glyph of a syllable of two glyphs
\* or more, and the reordering pause adds and removes no mark of a glyph of
\* the text.
C15_MarkedAtSetup ==
    /\ ~Done("setupSyllablesMyanmar") => Marked(buffer.Info) = {}
    /\ Ran("setupSyllablesMyanmar") =>
           /\ Marked(buffer.Info) = InLongSyllable(buffer.Info)
           /\ ~Done("reorderMyanmar")
    /\ Ran("reorderMyanmar") =>
           /\ Done("setupSyllablesMyanmar")
           /\ \A i \in DOMAIN res.pre :
                  \E j \in DOMAIN buffer.Info :
                      /\ buffer.Info[j].id = res.pre[i].id
                      /\ buffer.Info[j].Mask = res.pre[i].Mask
           /\ \A j \in DOMAIN buffer.Info :
                  buffer.Info[j].id # 0 => \E i \in DOMAIN res.pre : res.pre[i].id = buffer.Info[j].id

C15_Witness ==
    /\ Ran("reorderMyanmar")
    /\ Len(buffer.Info) > Len(res.pre)
    /\ Len(res.pre) >= 2
    /\ Marked(res.pre) = DOMAIN res.pre

\* C19: after a consonant syllable [start, end) is reordered, the position
\* tags of the whole range are non-decreasing, glyphs of equal tag keep their
\* order, and the range holds the glyphs it held before.
C19_RangeSortedByTag ==
    (Ran("reorderMyanmar") /\ OneSyllable(res.pre, myanmarConsonantSyllable)) =>
        LET info == buffer.Info
        IN  /\ \A i, j \in DOMAIN info : i < j => info[i].Aux2 <= info[j].Aux2
            /\ \A i, j \in DOMAIN info :
                   (i < j /\ info[i].Aux2 = info[j].Aux2) => info[i].id < info[j].id
            /\ Len(info) = Len(res.pre)
            /\ {info[i].id : i \in DOMAIN info} = {res.pre[i].id : i \in DOMAIN res.pre}

\* a stage as the pair of its kind and of the function or the tag it names
Named(stage) == <<stage.kind, IF stage.kind = "pause" THEN stage.func ELSE stage.tag>>

\* C20: the plan holds, in this order, the syllable-setup pause, 'locl',
\* 'ccmp', the reordering pause, each of 'rphf', 'pref', 'blwf', 'pstf' with a
\* pause after it, the clear-syllables pause, then 'pres', 'abvs', 'blws',
\* 'psts' with no pause between them; the stages run in that order.
C20_StagesInOrder ==
    /\ planner.collected =>
           [i \in DOMAIN planner.map_.stages |-> Named(planner.map_.stages[i])] =
               << <<"pause", "setupSyllablesMyanmar">>,
                  <<"feature", newTag(<<"l", "o", "c", "l">>)>>,
                  <<"feature", newTag(<<"c", "c", "m", "p">>)>>,
                  <<"pause", "reorderMyanmar">>,
                  <<"feature", newTag(<<"r", "p", "h", "f">>)>>, <<"pause", "nil">>,
                  <<"feature", newTag(<<"p", "r", "e", "f">>)>>, <<"pause", "nil">>,
                  <<"feature", newTag(<<"b", "l", "w", "f">>)>>, <<"pause", "nil">>,
                  <<"feature", newTag(<<"p", "s", "t", "f">>)>>, <<"pause", "nil">>,
                  <<"pause", "_hb_clear_syllables">>,
                  <<"feature", newTag(<<"p", "r", "e", "s">>)>>,
                  <<"feature", newTag(<<"a", "b", "v", "s">>)>>,
                  <<"feature", newTag(<<"b", "l", "w", "s">>)>>,
                  <<"feature", newTag(<<"p", "s", "t", "s">>)>> >>
    /\ res.op = "stage" => res.stage = planner.map_.stages[planner.done]

C20_Witness ==
    /\ planner.collected
    /\ planner.done = Len(planner.map_.stages)
    /\ planner.done = 17
    /\ Len(buffer.Info) >= 2

(***************************************************************************)
(* The loading of the configuration.  A Config is the sequence of the      *)
(* elements read into it, each named by the source it comes from, and the  *)
(* state of its fonts; a nil *Config is the record NilConfig.  What a      *)
(* parse reads depends on the files of the machine: the outcome of each    *)
(* parse, the number of elements read and the error, is an input.          *)
(***************************************************************************)
MaxElements == 2

FC_TEMPLATEDIR == "/usr/local/share/fontconfig/conf.avail"

\* the five elements of the built-in configuration
fallback == [i \in 1..5 |-> [from |-> "fallback", element |-> i]]

NewConfig == [nil |-> FALSE, content |-> <<>>, fonts |-> "none"]

NilConfig == [nil |-> TRUE, content |-> <<>>, fonts |-> "none"]

\* the elements of a source up to the one the parse stops at
elementsRead(name, outcome) == [i \in 1..outcome.n |-> [from |-> name, element |-> i]]

parseConfig(conf, name, outcome) ==
    [config |-> [conf EXCEPT !.content = @ \o elementsRead(name, outcome)],
     err |-> outcome.err]

LoadFromMemory(conf, source, outcome) ==
    [config |-> [conf EXCEPT !.content = @ \o SubSeq(source, 1, outcome.n)],
     err |-> outcome.err]

BuildFonts(conf) == [conf EXCEPT !.fonts = "built"]

initFallbackConfig(o3) == LoadFromMemory(NewConfig, fallback, o3)

\* the built-in configuration read into the Config of the failed parse
initLoadOwnConfigReused(o1, o2, o3) ==
    LET own == parseConfig(NewConfig, "", o1)
        template == parseConfig(own.config, FC_TEMPLATEDIR, o2)
    IN  IF own.err # "nil" THEN LoadFromMemory(own.config, fallback, o3)
        ELSE IF template.err # "nil" THEN [config |-> NilConfig, err |-> template.err]
        ELSE [config |-> template.config, err |-> "nil"]

initLoadOwnConfig(o1, o2, o3) ==
    LET own == parseConfig(NewConfig, "", o1)
        template == parseConfig(own.config, FC_TEMPLATEDIR, o2)
    IN  IF own.err # "nil" THEN initFallbackConfig(o3)
        ELSE IF template.err # "nil" THEN [config |-> NilConfig, err |-> template.err]
        ELSE [config |-> template.config, err |-> "nil"]

initLoadConfigAndFonts(o1, o2, o3) ==
    LET own == initLoadOwnConfig(o1, o2, o3)
    IN  IF own.err # "nil" THEN [config |-> NilConfig, err |-> own.err]
        ELSE [config |-> BuildFonts(own.config), err |-> "nil"]

(***************************************************************************)
(* SpecInit: the configuration is loaded, whatever the parses read.        *)
(***************************************************************************)
\* a parse of a source of n elements reads them all, or stops with an error
Outcomes(n) ==
    {[n |-> n, err |-> "nil"]} \cup [n : 0..n, err : {"syntax error", "no such file"}]

InitInit ==
    /\ InitPatterns
    /\ env = [lang |-> "fr", prg |-> "app"]
    /\ NoShaping

DoInitLoadOwnConfig ==
    /\ \E o1 \in Outcomes(MaxElements), o2 \in Outcomes(MaxElements), o3 \in Outcomes(5) :
           /\ config' = [loaded |-> TRUE, ret |-> initLoadOwnConfig(o1, o2, o3)]
           /\ res' = [op |-> "initLoadOwnConfig", o1 |-> o1, o2 |-> o2, o3 |-> o3]
    /\ UNCHANGED <<heap, p, q, env, planner, buffer, fonts>>

DoInitLoadConfigAndFonts ==
    /\ \E o1 \in Outcomes(MaxElements), o2 \in Outcomes(MaxElements), o3 \in Outcomes(5) :
           /\ config' = [loaded |-> TRUE, ret |-> initLoadConfigAndFonts(o1, o2, o3)]
           /\ res' = [op |-> "initLoadConfigAndFonts", o1 |-> o1, o2 |-> o2, o3 |-> o3]
    /\ UNCHANGED <<heap, p, q, env, planner, buffer, fonts>>

NextInit ==
    \/ DoInitLoadOwnConfig
    \/ DoInitLoadConfigAndFonts

SpecInit == InitInit /\ [][NextInit]_vars

(***************************************************************************)
(* Claims about the loading of the configuration, checked under SpecInit.  *)
(***************************************************************************)
\* C16: when the parse of the primary configuration fails, initLoadOwnConfig
\* returns the built-in configuration read into a fresh Config, with nothing
\* of the failed parse in it, and its error is the one of that reading;
\* initLoadConfigAndFonts returns a configuration and a nil error, or a nil
\* configuration and an error, and builds the fonts in the first case only.
C16_FallbackOnFailure ==
    /\ (res.op = "initLoadOwnConfig" /\ res.o1.err # "nil") =>
           /\ config.ret.err = res.o3.err
           /\ ~config.ret.config.nil
           /\ config.ret.config.content = SubSeq(fallback, 1, res.o3.n)
           /\ \A i \in DOMAIN config.ret.config.content :
                  config.ret.config.content[i].from = "fallback"
           /\ res.o3.err = "nil" => config.ret.config.content = fallback
    /\ res.op = "initLoadConfigAndFonts" =>
           \/ /\ config.ret.err = "nil"
              /\ ~config.ret.config.nil
              /\ config.ret.config.fonts = "built"
           \/ /\ config.ret.err # "nil"
              /\ config.ret.config = NilConfig
    /\ res.op = "initLoadOwnConfig" => config.ret.config.fonts = "none"

C16_Witness ==
    /\ res.op = "initLoadOwnConfig"
    /\ res.o1.err = "syntax error"
    /\ res.o1.n = 1
    /\ res.o3.err = "nil"
    /\ config.ret.err = "nil"
    /\ Len(config.ret.config.content) = 5

(***************************************************************************)
(* The patterns of a font set.  A candidate is a record: name is the font  *)
(* set it is declared in and its place there, FONTFORMAT its format ("" if *)
(* it has none), distance its vector of distances to the query.  A nil     *)
(* font set is the empty sequence, a nil pattern is NilCandidate.          *)
(***************************************************************************)
MaxFonts == 2
MaxApplicationFonts == 1

NilCandidate == [name |-> <<0, 0>>, FONTFORMAT |-> "", distance |-> <<0, 0>>]

pango_is_supported_font_format(pattern) ==
    /\ pattern.FONTFORMAT # ""
    /\ pattern.FONTFORMAT \in {"TrueType", "CFF"}

\* the candidates kept, the last one first
filterFontsetReversed(Fontset) ==
    LET kept == SelectSeq(Fontset, pango_is_supported_font_format)
    IN  [i \in 1..Len(kept) |-> kept[Len(kept) + 1 - i]]

filter_Fontset_by_format(Fontset) == SelectSeq(Fontset, pango_is_supported_font_format)

\* the order of two vectors of distances: the earlier objects dominate
DistanceLess(a, b) == a[1] < b[1] \/ (a[1] = b[1] /\ a[2] < b[2])

\* the outcomes of Fontset.Match: nil for an empty set, else a candidate no
\* other candidate is nearer than
Match(Fontset) ==
    IF Fontset = <<>> THEN {NilCandidate}
    ELSE {Fontset[i] : i \in {i \in DOMAIN Fontset :
              \A j \in DOMAIN Fontset : ~DistanceLess(Fontset[j].distance, Fontset[i].distance)}}

RECURSIVE insertByDistance(_, _)
insertByDistance(sorted, c) ==
    IF sorted = <<>> THEN <<c>>
    ELSE IF ~DistanceLess(c.distance, sorted[Len(sorted)].distance) THEN Append(sorted, c)
    ELSE Append(insertByDistance(SubSeq(sorted, 1, Len(sorted) - 1), c), sorted[Len(sorted)])

RECURSIVE sortByDistance(_)
sortByDistance(pool) ==
    IF pool = <<>> THEN <<>>
    ELSE insertByDistance(sortByDistance(SubSeq(pool, 1, Len(pool) - 1)), pool[Len(pool)])

\* fc.Sort: the candidates of the sets, nearest first, in the order of the
\* sets and of their places there when equally near
FontsetSort(sets) == sortByDistance(sets[1] \o sets[2])

\* the sets are sorted as they are, whatever the formats of their candidates
getFontPatternUnfiltered(pats, conf, i, match) ==
    LET asked == i = 0 /\ pats.match = NilCandidate /\ pats.Fontset = <<>>
        pats1 == IF asked THEN [pats EXCEPT !.match = match] ELSE pats
        pats2 == IF pats1.Fontset = <<>>
                 THEN [pats1 EXCEPT !.Fontset = FontsetSort(conf), !.match = NilCandidate]
                 ELSE pats1
    IN  IF i = 0 /\ pats1.match # NilCandidate /\ pango_is_supported_font_format(pats1.match)
        THEN [pats |-> pats1, pattern |-> pats1.match, prepare |-> FALSE,
              matched |-> asked, sorted |-> FALSE]
        ELSE [pats |-> pats2,
              pattern |-> IF i < Len(pats2.Fontset) THEN pats2.Fontset[i + 1] ELSE NilCandidate,
              prepare |-> TRUE, matched |-> asked, sorted |-> pats1.Fontset = <<>>]

\* Patterns.pango_patterns_get_font_pattern(i); match is the outcome of
\* Fontset.Match, looked at only where the code calls it.  matched and sorted
\* tell whether the call invoked Match and Sort.
pango_patterns_get_font_pattern(pats, conf, i, match) ==
    LET asked == i = 0 /\ pats.match = NilCandidate /\ pats.Fontset = <<>>
        pats1 == IF asked THEN [pats EXCEPT !.match = match] ELSE pats
        filtered == <<filter_Fontset_by_format(conf[1]), filter_Fontset_by_format(conf[2])>>
        pats2 == IF pats1.Fontset = <<>>
                 THEN [pats1 EXCEPT !.Fontset = FontsetSort(filtered), !.match = NilCandidate]
                 ELSE pats1
    IN  IF i = 0 /\ pats1.match # NilCandidate /\ pango_is_supported_font_format(pats1.match)
        THEN [pats |-> pats1, pattern |-> pats1.match, prepare |-> FALSE,
              matched |-> asked, sorted |-> FALSE]
        ELSE [pats |-> pats2,
              pattern |-> IF i < Len(pats2.Fontset) THEN pats2.Fontset[i + 1] ELSE NilCandidate,
              prepare |-> TRUE, matched |-> asked, sorted |-> pats1.Fontset = <<>>]

(***************************************************************************)
(* SpecFontset: the patterns of a font map are asked for, one index after  *)
(* another, over the font sets of a configuration.                         *)
(***************************************************************************)
Formats == {"TrueType", "Type 1", ""}

Distances == {<<0, 0>>, <<0, 1>>}

\* the font sets of n candidates declared as the set of the given name
FontsetsOf(set, n) ==
    {[i \in 1..n |-> [name |-> <<set, i>>, FONTFORMAT |-> f[i], distance |-> d[i]]] :
        f \in [1..n -> Formats], d \in [1..n -> Distances]}

InitFontset ==
    /\ InitPatterns
    /\ env = [lang |-> "fr", prg |-> "app"]
    /\ planner = [script |-> "Zyyy"]
    /\ buffer = [Info |-> <<>>]
    /\ config = [loaded |-> FALSE]
    /\ \E n \in 0..MaxFonts, m \in 0..MaxApplicationFonts :
           \E system \in FontsetsOf(1, n), application \in FontsetsOf(2, m) :
               fonts = [config |-> <<system, application>>,
                        pats |-> [match |-> NilCandidate, Fontset |-> <<>>]]

DoGetFontPattern(i) ==
    /\ \E match \in Match(fonts.config[1]) :
           LET r == pango_patterns_get_font_pattern(fonts.pats, fonts.config, i, match)
           IN  /\ fonts' = [fonts EXCEPT !.pats = r.pats]
               /\ res' = [op |-> "get_font_pattern", i |-> i, pattern |-> r.pattern,
                          prepare |-> r.prepare]
    /\ UNCHANGED <<heap, p, q, env, planner, buffer, config>>

NextFontset == \E i \in 0..(MaxFonts + MaxApplicationFonts) : DoGetFontPattern(i)

SpecFontset == InitFontset /\ [][NextFontset]_vars

(***************************************************************************)
(* Claims about the sorted font set, checked under SpecFontset.            *)
(***************************************************************************)
\* the candidates of the configuration with a supported format, in the order
\* of their declaration
Pool == SelectSeq(fonts.config[1] \o fonts.config[2],
                  LAMBDA c : c.FONTFORMAT \in {"TrueType", "CFF"})

DeclaredBefore(a, b) == a.name[1] < b.name[1] \/ (a.name[1] = b.name[1] /\ a.name[2] < b.name[2])

C21_PositionKept ==
    Ran("reorderMyanmar") =>
        \A i \in DOMAIN res.pre :
            /\ res.pre[i].Aux2 = positionOf(res.pre[i].AuxCategory)
            /\ res.pre[i].AuxCategory = "OT_VPre" => res.pre[i].Aux2 < POS_BASE_C

(***************************************************************************)
(* SpecSyllables: the scanner reports one syllable after another over a    *)
(* buffer, from any serial.  buffer.ts is the end of the last syllable     *)
(* reported, buffer.ends the ends of all of them.                          *)
(***************************************************************************)
MaxGlyphs == 4

SyllableTypes ==
    {myanmarConsonantSyllable, myanmarPunctuationCluster, myanmarBrokenCluster,
     myanmarNonMyanmarCluster}

InitSyllables ==
    /\ InitPatterns
    /\ env = [lang |-> "fr", prg |-> "app"]
    /\ planner = [script |-> "Zyyy"]
    /\ config = [loaded |-> FALSE]
    /\ fonts = <<>>
    /\ \E n \in 1..MaxGlyphs, serial \in 0..15 :
           buffer = [Info |-> glyphsOf([i \in 1..n |-> "OT_C"]),
                     syllableSerial |-> serial, ts |-> 0, ends |-> {}]

DoFoundSyllable(syllableType, te) ==
    /\ "ts" \in DOMAIN buffer
    /\ buffer.ts < te
    /\ te <= Len(buffer.Info)
    /\ LET r == foundSyllableMyanmar(syllableType, buffer.ts, te, buffer.Info,
                                     buffer.syllableSerial)
       IN  buffer' = [Info |-> r.info, syllableSerial |-> r.syllableSerial, ts |-> te,
                      ends |-> buffer.ends \cup {te}]
    /\ res' = [op |-> "foundSyllable", type |-> syllableType, ts |-> buffer.ts, te |-> te,
               serial |-> buffer.syllableSerial]
    /\ UNCHANGED <<heap, p, q, env, planner, config, fonts>>

NextSyllables ==
    \E syllableType \in SyllableTypes, te \in 1..MaxGlyphs : DoFoundSyllable(syllableType, te)

SpecSyllables == InitSyllables /\ [][NextSyllables]_vars

\* C22: each glyph of [ts, te) is tagged serial * 16 + syllableType, the
\* serial after a call is in 1..15, and two syllables next to each other
\* hold different tags while the glyphs of one syllable hold the same.
C22_SerialsSeparateSyllables ==
    res.op = "foundSyllable" =>
        /\ \A i \in res.ts..(res.te - 1) : buffer.Info[i + 1].Aux2 = res.serial * 16 + res.type
        /\ buffer.syllableSerial \in 1..15
        /\ \A i \in 1..(buffer.ts - 1) :
               (buffer.Info[i].Aux2 # buffer.Info[i + 1].Aux2) <=> (i \in buffer.ends)

C22_Witness ==
    /\ res.op = "foundSyllable"
    /\ res.serial = 15
    /\ buffer.syllableSerial = 1
    /\ res.ts > 0
    /\ buffer.Info[res.ts].Aux2 = 14 * 16 + res.type

(***************************************************************************)
(* SpecLazy: one Patterns object is asked for patterns in any order of     *)
(* indices.  fonts.Match and fonts.Sort count the invocations of Match and *)
(* of Sort, fonts.first keeps what each index returned when it was first   *)
(* asked for.                                                              *)
(***************************************************************************)
MaxLazyFonts == 2
MaxInvocations == 2

NeverAsked == [asked |-> FALSE, pattern |-> NilCandidate, prepare |-> FALSE]

InitLazy ==
    /\ InitPatterns
    /\ env = [lang |-> "fr", prg |-> "app"]
    /\ planner = [script |-> "Zyyy"]
    /\ buffer = [Info |-> <<>>]
    /\ config = [loaded |-> FALSE]
    /\ \E n \in 0..MaxLazyFonts : \E system \in FontsetsOf(1, n) :
           fonts = [config |-> <<system, <<>>>>,
                    pats |-> [match |-> NilCandidate, Fontset |-> <<>>],
                    Match |-> 0, Sort |-> 0,
                    first |-> [i \in 0..MaxLazyFonts |-> NeverAsked]]

DoGetLazy(i) ==
    /\ fonts.Match <= MaxInvocations
    /\ fonts.Sort <= MaxInvocations
    /\ \E match \in Match(fonts.config[1]) :
           LET r == pango_patterns_get_font_pattern(fonts.pats, fonts.config, i, match)
           IN  /\ fonts' = [fonts EXCEPT
                      !.pats = r.pats,
                      !.Match = @ + (IF r.matched THEN 1 ELSE 0),
                      !.Sort = @ + (IF r.sorted THEN 1 ELSE 0),
                      !.first[i] = IF @.asked THEN @
                                   ELSE [asked |-> TRUE, pattern |-> r.pattern,
                                         prepare |-> r.prepare]]
               /\ res' = [op |-> "get_font_pattern", i |-> i, pattern |-> r.pattern,
                          prepare |-> r.prepare, pre |-> fonts.first[i]]
    /\ UNCHANGED <<heap, p, q, env, planner, buffer, config>>

NextLazy == \E i \in 0..MaxLazyFonts : DoGetLazy(i)

SpecLazy == InitLazy /\ [][NextLazy]_vars

\* the sorted, format-filtered font set of the configuration
SortedPool == sortByDistance(Pool)

SortedAt(i) == IF i < Len(SortedPool) THEN SortedPool[i + 1] ELSE NilCandidate

NilFont == [id |-> 0, pattern |-> 0, matrix |-> <<0, 0, 0, 0>>]

\* fc.Matrix.Multiply
Multiply(a, b) ==
    <<a[1] * b[1] + a[2] * b[3], a[1] * b[2] + a[2] * b[4],
      a[3] * b[1] + a[4] * b[3], a[3] * b[2] + a[4] * b[4]>>

RECURSIVE multiplyAll(_, _)
multiplyAll(fcMatrix, matrices) ==
    IF matrices = <<>> THEN fcMatrix
    ELSE multiplyAll(Multiply(fcMatrix, Head(matrices)), Tail(matrices))

\* PangoFontsetKey.newFontKey(pattern)
newFontKey(FontsetKey, pattern) ==
    [pattern |-> pattern, matrix |-> FontsetKey.matrix,
     variations |-> FontsetKey.variations, context_key |-> FontsetKey.context_key]

\* font_hash.lookup(key): the Font inserted under an equal key, or nil
lookup(font_hash, key) ==
    IF \E k \in DOMAIN font_hash : font_hash[k].key = key
    THEN font_hash[CHOOSE k \in DOMAIN font_hash : font_hash[k].key = key].font
    ELSE NilFont

\* font_hash.insert(key, fcfont)
fontHashInsert(font_hash, key, fcfont) ==
    IF \E k \in DOMAIN font_hash : font_hash[k].key = key
    THEN [k \in DOMAIN font_hash |->
              IF font_hash[k].key = key THEN [key |-> key, font |-> fcfont] ELSE font_hash[k]]
    ELSE Append(font_hash, [key |-> key, font |-> fcfont])

\* a Font is created and inserted at every call, the cache is not looked at
newFontUncached(fontmap, store, FontsetKey, match) ==
    IF fontmap.Closed THEN [fontmap |-> fontmap, store |-> store, font |-> NilFont]
    ELSE LET key == newFontKey(FontsetKey, store[match])
             pangoMatrix == FontsetKey.matrix
             fcMatrix == <<pangoMatrix[1], -pangoMatrix[2], -pangoMatrix[3], pangoMatrix[4]>>
             store1 == Append(store, store[match])
             pattern == Len(store1)
             store2 == [store1 EXCEPT
                           ![pattern].MATRIX = <<multiplyAll(fcMatrix, store1[pattern].MATRIX)>>]
             fcfont == [id |-> pattern, pattern |-> pattern, matrix |-> key.matrix]
         IN  [fontmap |-> [fontmap EXCEPT !.font_hash = Append(@, [key |-> key, font |-> fcfont])],
              store |-> store2, font |-> fcfont]

\* FontMap.newFont(FontsetKey, match); match is the place of the pattern in
\* the store.  The result is the font map, the store and the Font returned.
newFont(fontmap, store, FontsetKey, match) ==
    IF fontmap.Closed THEN [fontmap |-> fontmap, store |-> store, font |-> NilFont]
    ELSE LET key == newFontKey(FontsetKey, store[match])
             cached == lookup(fontmap.font_hash, key)
             pangoMatrix == FontsetKey.matrix
             fcMatrix == <<pangoMatrix[1], -pangoMatrix[2], -pangoMatrix[3], pangoMatrix[4]>>
             \* match.Duplicate(), then Del(MATRIX) and Add(MATRIX, ...) on the copy
             store1 == Append(store, store[match])
             pattern == Len(store1)
             store2 == [store1 EXCEPT
                           ![pattern].MATRIX = <<multiplyAll(fcMatrix, store1[pattern].MATRIX)>>]
             fcfont == [id |-> pattern, pattern |-> pattern, matrix |-> key.matrix]
         IN  IF cached # NilFont
             THEN [fontmap |-> fontmap, store |-> store, font |-> cached]
             ELSE [fontmap |-> [fontmap EXCEPT !.font_hash = fontHashInsert(@, key, fcfont)],
                   store |-> store2, font |-> fcfont]

(***************************************************************************)
(* SpecFontMap: newFont is called on one font map, closed or open, with    *)
(* the keys of several font sets and the patterns of a store.              *)
(***************************************************************************)
MaxCachedFonts == 3

Identity == <<1, 0, 0, 1>>

QuarterTurn == <<0, 1, -1, 0>>

FontsetKeys ==
    {[matrix |-> m, context_key |-> 1, variations |-> v] :
        m \in {Identity, QuarterTurn}, v \in {"", "wght=700"}}

TrueTypeCandidate == [name |-> <<1, 1>>, FONTFORMAT |-> "TrueType", distance |-> <<0, 0>>]

InitFontMap ==
    /\ InitPatterns
    /\ env = [lang |-> "fr", prg |-> "app"]
    /\ planner = [script |-> "Zyyy"]
    /\ buffer = [Info |-> <<>>]
    /\ config = [loaded |-> FALSE]
    /\ \E closed \in BOOLEAN :
           fonts = [fontmap |-> [Closed |-> closed, font_hash |-> <<>>],
                    store |-> <<[font |-> TrueTypeCandidate, MATRIX |-> <<>>],
                                [font |-> TrueTypeCandidate, MATRIX |-> <<QuarterTurn, QuarterTurn>>]>>]

DoNewFont(FontsetKey, match) ==
    /\ Len(fonts.fontmap.font_hash) <= MaxCachedFonts
    /\ LET r == newFont(fonts.fontmap, fonts.store, FontsetKey, match)
       IN  /\ fonts' = [fonts EXCEPT !.fontmap = r.fontmap, !.store = r.store]
           /\ res' = [op |-> "newFont", font |-> r.font,
                      key |-> newFontKey(FontsetKey, fonts.store[match]),
                      match |-> match, pre |-> fonts]
    /\ UNCHANGED <<heap, p, q, env, planner, buffer, config>>

NextFontMap == \E FontsetKey \in FontsetKeys, match \in 1..2 : DoNewFont(FontsetKey, match)

SpecFontMap == InitFontMap /\ [][NextFontMap]_vars

\* C27: on a closed font map newFont returns nil and leaves the cache as it
\* is; on an open one a call whose key is cached returns the cached Font and
\* creates none; the cache holds at most one Font for a key, a Font returned
\* is the entry of its key, and the match pattern is as it was before.
C27_FontsCachedByKey ==
    LET font_hash == fonts.fontmap.font_hash
    IN  /\ \A a, b \in DOMAIN font_hash : font_hash[a].key = font_hash[b].key => a = b
        /\ res.op = "newFont" =>
               /\ fonts.fontmap.Closed =>
                      (res.font = NilFont /\ font_hash = res.pre.fontmap.font_hash)
               /\ (~fonts.fontmap.Closed /\ lookup(res.pre.fontmap.font_hash, res.key) # NilFont) =>
                      /\ res.font = lookup(res.pre.fontmap.font_hash, res.key)
                      /\ font_hash = res.pre.fontmap.font_hash
                      /\ fonts.store = res.pre.store
               /\ res.font # NilFont => lookup(font_hash, res.key) = res.font
               /\ \A k \in DOMAIN res.pre.store : fonts.store[k] = res.pre.store[k]
               /\ res.key.pattern = fonts.store[res.match]

\* a second call with a cached key returned the Font of the first, made from
\* a pattern that holds two matrices
C27_Witness ==
    /\ res.op = "newFont"
    /\ ~fonts.fontmap.Closed
    /\ res.match = 2
    /\ lookup(res.pre.fontmap.font_hash, res.key) = res.font
    /\ res.font # NilFont
    /\ Len(fonts.fontmap.font_hash) = 2
    /\ fonts.store[res.font.pattern].MATRIX = <<<<0, 1, -1, 0>>>>

(***************************************************************************)
(* The fonts of a Fontset.  st is the record of the objects a Fontset      *)
(* reaches: its Patterns (pats), itself (fs: key, fonts, patterns_i), the  *)
(* font map and the store of pattern objects.                              *)
(***************************************************************************)
\* Config.PrepareRender(pattern, fontPattern): a pattern object of its own
\* that describes the font
PrepareRender(pattern, fontPattern) == [font |-> fontPattern, MATRIX |-> <<>>]

\* Fontset.pango_Fontset_load_next_font()
pango_Fontset_load_next_font(st, conf, match) ==
    LET r == pango_patterns_get_font_pattern(st.pats, conf, st.fs.patterns_i, match)
        st1 == [st EXCEPT !.pats = r.pats, !.fs.patterns_i = @ + 1]
        fontPattern == IF r.prepare THEN PrepareRender(conf, r.pattern)
                       ELSE [font |-> r.pattern, MATRIX |-> <<>>]
        store1 == Append(st1.store, fontPattern)
        made == newFont(st1.fontmap, store1, st1.fs.key, Len(store1))
    IN  IF r.pattern = NilCandidate THEN [st |-> st1, font |-> NilFont]
        ELSE [st |-> [st1 EXCEPT !.fontmap = made.fontmap, !.store = made.store],
              font |-> made.font]

\* the next font is loaded at every call, whatever fonts the set holds
RECURSIVE getFontAtReload(_, _, _, _)
getFontAtReload(st, conf, match, i) ==
    LET next == pango_Fontset_load_next_font(st, conf, match)
        st1 == [next.st EXCEPT !.fs.fonts = Append(@, next.font)]
    IN  IF next.font = NilFont THEN [st |-> st1, font |-> NilFont]
        ELSE IF i >= Len(st1.fs.fonts) THEN getFontAtReload(st1, conf, match, i)
        ELSE [st |-> st1, font |-> st1.fs.fonts[i + 1]]

\* Fontset.getFontAt(i)
RECURSIVE getFontAt(_, _, _, _)
getFontAt(st, conf, match, i) ==
    IF i >= Len(st.fs.fonts)
    THEN LET next == pango_Fontset_load_next_font(st, conf, match)
             st1 == [next.st EXCEPT !.fs.fonts = Append(@, next.font)]
         IN  IF next.font = NilFont THEN [st |-> st1, font |-> NilFont]
             ELSE getFontAt(st1, conf, match, i)
    ELSE [st |-> st, font |-> st.fs.fonts[i + 1]]

(***************************************************************************)
(* SpecFontsetLoad: the fonts of one Fontset are asked for by index, and   *)
(* Foreach runs over them.  Foreach is followed one round of its loop at a *)
(* time; fonts.foreach holds whether it is running, its index i and the    *)
(* fonts it has invoked the callback on.  answer is what the callback      *)
(* returns.                                                                *)
(***************************************************************************)
MaxLoadFonts == 2
MaxRounds == 3

InitFontsetLoad ==
    /\ InitPatterns
    /\ env = [lang |-> "fr", prg |-> "app"]
    /\ planner = [script |-> "Zyyy"]
    /\ buffer = [Info |-> <<>>]
    /\ config = [loaded |-> FALSE]
    /\ \E n \in 0..MaxLoadFonts, closed \in BOOLEAN : \E system \in FontsetsOf(1, n) :
           fonts = [config |-> <<system, <<>>>>,
                    pats |-> [match |-> NilCandidate, Fontset |-> <<>>],
                    fs |-> [key |-> [matrix |-> <<1, 0, 0, 1>>, context_key |-> 1,
                                     variations |-> ""],
                            fonts |-> <<>>, patterns_i |-> 0],
                    fontmap |-> [Closed |-> closed, font_hash |-> <<>>],
                    store |-> <<>>,
                    foreach |-> [running |-> FALSE, i |-> 0, invoked |-> <<>>]]

\* the objects a Fontset reaches
Reached == [pats |-> fonts.pats, fs |-> fonts.fs, fontmap |-> fonts.fontmap,
            store |-> fonts.store]

DoGetFontAt(i) ==
    /\ ~fonts.foreach.running
    /\ \E match \in Match(fonts.config[1]) :
           \E r \in {getFontAt(Reached, fonts.config, match, i)} :
               /\ fonts' = [fonts EXCEPT !.pats = r.st.pats, !.fs = r.st.fs,
                                         !.fontmap = r.st.fontmap, !.store = r.st.store]
               /\ res' = [op |-> "getFontAt", i |-> i, font |-> r.font, pre |-> fonts.fs]
    /\ UNCHANGED <<heap, p, q, env, planner, buffer, config>>

\* Foreach is called: i := 0
DoForeach ==
    /\ ~fonts.foreach.running
    /\ fonts' = [fonts EXCEPT !.foreach = [running |-> TRUE, i |-> 0, invoked |-> <<>>]]
    /\ res' = [op |-> "Foreach", i |-> 0, font |-> NilFont, pre |-> fonts.fs]
    /\ UNCHANGED <<heap, p, q, env, planner, buffer, config>>

\* one round of the loop of Foreach: getFontAt(i), the callback, i++
DoForeachRound(answer) ==
    /\ fonts.foreach.running
    /\ fonts.foreach.i <= MaxRounds
    /\ \E match \in Match(fonts.config[1]) :
           \E r \in {getFontAt(Reached, fonts.config, match, fonts.foreach.i)} :
               /\ fonts' = [fonts EXCEPT
                      !.pats = r.st.pats, !.fs = r.st.fs,
                      !.fontmap = r.st.fontmap, !.store = r.st.store,
                      !.foreach = [running |-> ~answer,
                                   i |-> IF answer THEN @.i ELSE @.i + 1,
                                   invoked |-> Append(@.invoked, r.font)]]
               /\ res' = [op |-> "round", i |-> fonts.foreach.i, font |-> r.font,
                          pre |-> fonts.fs]
    /\ UNCHANGED <<heap, p, q, env, planner, buffer, config>>

NextFontsetLoad ==
    \/ \E i \in 0..MaxLoadFonts : DoGetFontAt(i)
    \/ DoForeach
    \/ \E answer \in BOOLEAN : DoForeachRound(answer)

SpecFontsetLoad == InitFontsetLoad /\ [][NextFontsetLoad]_vars

\* C23: Foreach invokes the callback on the fonts of the set in the order
\* of their indices and on no nil font, and it does not go on past the end
\* of the fonts: while it runs, every font before its index is a font.
C23_ForeachStopsAtEnd ==
    LET invoked == fonts.foreach.invoked
    IN  /\ \A k \in DOMAIN invoked : invoked[k] # NilFont
        /\ \A k \in DOMAIN invoked : invoked[k] = fonts.fs.fonts[k]
        /\ fonts.foreach.running =>
               \A k \in 1..fonts.foreach.i : fonts.fs.fonts[k] # NilFont

\* the candidate that the font at a place of the set was made for
CandidateOf(font) == fonts.store[font.pattern].font

\* C24: the Fontset holds as many fonts as it has asked patterns for; the
\* font at place k is the one made for the pattern of index k, or nil where
\* there is none; a call for an index already loaded returns the font held
\* and loads nothing; after a nil entry every entry is nil.
C24_FontsFollowPatterns ==
    LET held == fonts.fs.fonts
    IN  /\ Len(held) = fonts.fs.patterns_i
        /\ \A k \in DOMAIN held :
               IF fonts.fontmap.Closed THEN held[k] = NilFont
               ELSE IF k = 1
               THEN \/ held[k] = NilFont /\ SortedPool = <<>>
                    \/ held[k] # NilFont
                           /\ CandidateOf(held[k]) \in Match(fonts.config[1]) \cup {SortedAt(0)}
                           /\ CandidateOf(held[k]).FONTFORMAT \in {"TrueType", "CFF"}
               ELSE \/ held[k] = NilFont /\ SortedAt(k - 1) = NilCandidate
                    \/ held[k] # NilFont /\ CandidateOf(held[k]) = SortedAt(k - 1)
        /\ \A a, b \in DOMAIN held : (a < b /\ held[a] = NilFont) => held[b] = NilFont
        /\ res.op \in {"getFontAt", "round"} =>
               /\ Len(res.pre.fonts) <= Len(held)
               /\ \A k \in DOMAIN res.pre.fonts : held[k] = res.pre.fonts[k]
               /\ res.i < Len(res.pre.fonts) =>
                      /\ res.font = res.pre.fonts[res.i + 1]
                      /\ fonts.fs = res.pre

\* a font loaded earlier is asked for again, after the set was emptied of
\* patterns
C24_Witness ==
    /\ res.op = "getFontAt"
    /\ res.i = 0
    /\ Len(res.pre.fonts) = 3
    /\ res.font # NilFont
    /\ fonts.fs.fonts[2] # NilFont
    /\ fonts.fs.fonts[3] = NilFont
    /\ fonts.fs.patterns_i = 3

(***************************************************************************)
(* SpecRace: two callers share one Patterns object and call                *)
(* pango_patterns_get_font_pattern with no lock.  A call is followed one   *)
(* access to the fields of the object at a time; at is the place of the    *)
(* caller in the function:                                                 *)
(*   "test"    the test of match and Fontset for nil, for index 0          *)
(*   "match"   pats.match = Match(...)                                     *)
(*   "check"   the test of pats.match and of its format                    *)
(*   "ret"     return pats.match, false                                    *)
(*   "testSet" the test of pats.Fontset for nil                            *)
(*   "sort"    pats.Fontset = Sort(...)                                    *)
(*   "clear"   pats.match = nil if it is not                               *)
(*   "index"   return pats.Fontset[i], true, or nil, true                  *)
(* and "idle" before its first call, "done" when the call has returned.    *)
(* alone tells that no step of the other caller fell within the call.      *)
(***************************************************************************)
MaxRaceFonts == 1

Callers == {1, 2}

\* the step of a caller is as in the function, but the format of the match
\* is not looked at
getFontPatternStepAnyFormat(pats, conf, caller, match) ==
    LET filtered == <<filter_Fontset_by_format(conf[1]), filter_Fontset_by_format(conf[2])>>
    IN  CASE caller.at = "test" ->
                 [pats |-> pats,
                  caller |-> [caller EXCEPT !.at =
                      IF pats.match = NilCandidate /\ pats.Fontset = <<>> THEN "match"
                      ELSE "check"]]
          [] caller.at = "match" ->
                 [pats |-> [pats EXCEPT !.match = match],
                  caller |-> [caller EXCEPT !.at = "check"]]
          [] caller.at = "check" ->
                 [pats |-> pats,
                  caller |-> [caller EXCEPT !.at =
                      IF pats.match # NilCandidate THEN "ret" ELSE "testSet"]]
          [] caller.at = "ret" ->
                 [pats |-> pats,
                  caller |-> [caller EXCEPT !.at = "done", !.pattern = pats.match,
                                            !.prepare = FALSE]]
          [] caller.at = "testSet" ->
                 [pats |-> pats,
                  caller |-> [caller EXCEPT !.at =
                      IF pats.Fontset = <<>> THEN "sort" ELSE "index"]]
          [] caller.at = "sort" ->
                 [pats |-> [pats EXCEPT !.Fontset = FontsetSort(filtered)],
                  caller |-> [caller EXCEPT !.at = "clear"]]
          [] caller.at = "clear" ->
                 [pats |-> [pats EXCEPT !.match = NilCandidate],
                  caller |-> [caller EXCEPT !.at = "index"]]
          [] caller.at = "index" ->
                 [pats |-> pats,
                  caller |-> [caller EXCEPT
                      !.at = "done",
                      !.pattern = IF caller.i < Len(pats.Fontset)
                                  THEN pats.Fontset[caller.i + 1] ELSE NilCandidate,
                      !.prepare = TRUE]]

\* one access of a call of pango_patterns_get_font_pattern(caller.i) to the
\* Patterns object; match is the outcome of Fontset.Match
getFontPatternStep(pats, conf, caller, match) ==
    LET filtered == <<filter_Fontset_by_format(conf[1]), filter_Fontset_by_format(conf[2])>>
    IN  CASE caller.at = "test" ->
                 [pats |-> pats,
                  caller |-> [caller EXCEPT !.at =
                      IF pats.match = NilCandidate /\ pats.Fontset = <<>> THEN "match"
                      ELSE "check"]]
          [] caller.at = "match" ->
                 [pats |-> [pats EXCEPT !.match = match],
                  caller |-> [caller EXCEPT !.at = "check"]]
          [] caller.at = "check" ->
                 [pats |-> pats,
                  caller |-> [caller EXCEPT !.at =
                      IF pats.match # NilCandidate /\ pango_is_supported_font_format(pats.match)
                      THEN "ret" ELSE "testSet"]]
          [] caller.at = "ret" ->
                 [pats |-> pats,
                  caller |-> [caller EXCEPT !.at = "done", !.pattern = pats.match,
                                            !.prepare = FALSE]]
          [] caller.at = "testSet" ->
                 [pats |-> pats,
                  caller |-> [caller EXCEPT !.at =
                      IF pats.Fontset = <<>> THEN "sort" ELSE "index"]]
          [] caller.at = "sort" ->
                 [pats |-> [pats EXCEPT !.Fontset = FontsetSort(filtered)],
                  caller |-> [caller EXCEPT !.at = "clear"]]
          [] caller.at = "clear" ->
                 [pats |-> [pats EXCEPT !.match = NilCandidate],
                  caller |-> [caller EXCEPT !.at = "index"]]
          [] caller.at = "index" ->
                 [pats |-> pats,
                  caller |-> [caller EXCEPT
                      !.at = "done",
                      !.pattern = IF caller.i < Len(pats.Fontset)
                                  THEN pats.Fontset[caller.i + 1] ELSE NilCandidate,
                      !.prepare = TRUE]]

Returned(caller) == caller.at \in {"idle", "done"}

InitRace ==
    /\ InitPatterns
    /\ env = [lang |-> "fr", prg |-> "app"]
    /\ planner = [script |-> "Zyyy"]
    /\ buffer = [Info |-> <<>>]
    /\ config = [loaded |-> FALSE]
    /\ \E n \in 0..MaxRaceFonts : \E system \in FontsetsOf(1, n) :
           fonts = [config |-> <<system, <<>>>>,
                    pats |-> [match |-> NilCandidate, Fontset |-> <<>>],
                    callers |-> [c \in Callers |->
                                    [at |-> "idle", i |-> 0, pattern |-> NilCandidate,
                                     prepare |-> FALSE, alone |-> TRUE]]]

\* a caller enters pango_patterns_get_font_pattern(i)
DoCall(c, i) ==
    /\ Returned(fonts.callers[c])
    /\ fonts' = [fonts EXCEPT !.callers[c] =
                    [at |-> IF i = 0 THEN "test" ELSE "testSet", i |-> i,
                     pattern |-> NilCandidate, prepare |-> FALSE, alone |-> TRUE]]
    /\ res' = [op |-> "call", caller |-> c]
    /\ UNCHANGED <<heap, p, q, env, planner, buffer, config>>

\* a caller within the function makes its next access
DoStep(c) ==
    /\ ~Returned(fonts.callers[c])
    /\ \E match \in Match(fonts.config[1]) :
           LET r == getFontPatternStep(fonts.pats, fonts.config, fonts.callers[c], match)
           IN  fonts' = [fonts EXCEPT
                   !.pats = r.pats,
                   !.callers = [d \in Callers |->
                       IF d = c THEN r.caller
                       ELSE IF Returned(fonts.callers[d]) THEN fonts.callers[d]
                       ELSE [fonts.callers[d] EXCEPT !.alone = FALSE]]]
    /\ res' = [op |-> "step", caller |-> c]
    /\ UNCHANGED <<heap, p, q, env, planner, buffer, config>>

NextRace ==
    \/ \E c \in Callers, i \in 0..MaxRaceFonts : DoCall(c, i)
    \/ \E c \in Callers : DoStep(c)

SpecRace == InitRace /\ [][NextRace]_vars

\* what a call for an index returns when the calls run one after another
Sequential(caller) ==
    /\ caller.i >= 1 => (caller.prepare /\ caller.pattern = SortedAt(caller.i))
    /\ caller.i = 0 =>
           \/ /\ ~caller.prepare
              /\ caller.pattern \in Match(fonts.config[1])
              /\ caller.pattern # NilCandidate
              /\ caller.pattern.FONTFORMAT \in {"TrueType", "CFF"}
           \/ caller.prepare /\ caller.pattern = SortedAt(0)

\* C28, as stated: whatever the interleaving, a call returns what it returns
\* when the calls run one after another, and index 0 yields a pattern when
\* the configuration holds a font of a supported format.
C28_InterleavedAsSequential ==
    \A c \in Callers :
        fonts.callers[c].at = "done" =>
            /\ Sequential(fonts.callers[c])
            /\ (fonts.callers[c].i = 0 /\ Pool # <<>>) => fonts.callers[c].pattern # NilCandidate

\* C28, amended: a call within which the other caller made no access
\* returns what it returns when the calls run one after another, and then
\* index 0 yields a pattern when the configuration holds a font of a
\* supported format.
C28_AloneAsSequential ==
    \A c \in Callers :
        (fonts.callers[c].at = "done" /\ fonts.callers[c].alone) =>
            /\ Sequential(fonts.callers[c])
            /\ (fonts.callers[c].i = 0 /\ Pool # <<>>) => fonts.callers[c].pattern # NilCandidate

\* both callers have returned from calls run one after the other, the one
\* with the match for index 0, the other with the pattern after it
C28_Witness ==
    /\ fonts.callers[1].at = "done"
    /\ fonts.callers[2].at = "done"
    /\ fonts.callers[1].alone
    /\ fonts.callers[2].alone
    /\ fonts.callers[1].i = 0
    /\ ~fonts.callers[1].prepare
    /\ fonts.callers[1].pattern # NilCandidate
    /\ fonts.callers[2].i = 1
    /\ fonts.callers[2].prepare
    /\ fonts.pats.Fontset # <<>>

(***************************************************************************)
(* The tags of the Sill table.  A 32-bit tag is the sequence of its four   *)
(* bytes, the most significant first; a mask is one too.                   *)
(***************************************************************************)
\* x & m for one byte, m being one of 0x00, 0x20, 0xFF
byteAnd(x, m) ==
    IF m = 255 THEN x
    ELSE IF m = 0 THEN 0
    ELSE IF (x \div 32) % 2 = 1 THEN 32 ELSE 0

\* x & mask
tagAnd(x, mask) == [k \in 1..4 |-> byteAnd(x[k], mask[k])]

spaceToZero(x) ==
    IF x = <<32, 32, 32, 32>> THEN <<0, 0, 0, 0>>
    ELSE IF tagAnd(x, <<0, 255, 255, 255>>) = <<0, 32, 32, 32>>
    THEN tagAnd(x, <<255, 0, 0, 0>>)
    ELSE IF tagAnd(x, <<0, 0, 255, 255>>) = <<0, 0, 32, 32>>
    THEN tagAnd(x, <<255, 255, 0, 0>>)
    ELSE IF tagAnd(x, <<0, 0, 0, 255>>) = <<0, 0, 0, 32>>
    THEN tagAnd(x, <<255, 255, 255, 0>>)
    ELSE x

zeroToSpace(x) ==
    IF x = <<0, 0, 0, 0>> THEN <<32, 32, 32, 32>>
    ELSE IF tagAnd(x, <<0, 255, 255, 255>>) = <<0, 0, 0, 0>>
    THEN tagAnd(x, <<255, 32, 32, 32>>)
    ELSE IF tagAnd(x, <<0, 0, 255, 255>>) = <<0, 0, 0, 0>>
    THEN tagAnd(x, <<255, 255, 32, 32>>)
    ELSE IF tagAnd(x, <<0, 0, 0, 255>>) = <<0, 0, 0, 0>>
    THEN tagAnd(x, <<255, 255, 255, 32>>)
    ELSE x

(***************************************************************************)
(* SpecTags: a tag is brought to the internal convention, as GetFeatures   *)
(* does with the name of a language, and a tag is brought to the external  *)
(* one, as applyValues does with the identifier of a feature.              *)
(***************************************************************************)
\* zero, the space, 'i' and 'v'
TagBytes == {0, 32, 105, 118}

InitTags ==
    /\ InitPatterns
    /\ env = [lang |-> "fr", prg |-> "app"]
    /\ planner = [script |-> "Zyyy"]
    /\ config = [loaded |-> FALSE]
    /\ fonts = <<>>
    /\ \E t \in [1..4 -> TagBytes] : buffer = [tag |-> t, internal |-> t, converted |-> FALSE]

DoSpaceToZero ==
    /\ buffer' = [buffer EXCEPT !.internal = spaceToZero(buffer.tag), !.converted = TRUE]
    /\ res' = [op |-> "spaceToZero", x |-> buffer.tag, out |-> spaceToZero(buffer.tag)]
    /\ UNCHANGED <<heap, p, q, env, planner, config, fonts>>

DoZeroToSpace ==
    /\ res' = [op |-> "zeroToSpace", x |-> buffer.internal, out |-> zeroToSpace(buffer.internal)]
    /\ UNCHANGED <<heap, p, q, env, planner, buffer, config, fonts>>

NextTags == DoSpaceToZero \/ DoZeroToSpace

SpecTags == InitTags /\ [][NextTags]_vars

\* C29: a tag of four non-zero bytes, brought to the internal convention by
\* spaceToZero and back by zeroToSpace, is the tag again.
C29_ZeroToSpaceInverts ==
    (/\ res.op = "zeroToSpace"
     /\ buffer.converted
     /\ \A k \in 1..4 : buffer.tag[k] # 0) => res.out = buffer.tag

(***************************************************************************)
(* The style of a CFF font.  A string is the sequence of its characters;   *)
(* the index i of the source is the place i + 1 here.  An index outside a  *)
(* string stops the function: the result then has failed = TRUE.           *)
(***************************************************************************)
Uppercase == {"A", "B", "C", "D", "E", "F", "G", "H", "I", "J", "K", "L", "M",
              "N", "O", "P", "Q", "R", "S", "T", "U", "V", "W", "X", "Y", "Z"}

RECURSIVE removeSubsetPrefix(_)
removeSubsetPrefix(name) ==
    IF Len(name) >= 7 /\ name[7] = "+" /\ (\A idx \in 1..6 : name[idx] \in Uppercase)
    THEN removeSubsetPrefix(SubSeq(name, 8, Len(name)))
    ELSE name

\* the index the second loop of removeStyle stops at
RECURSIVE skipSpecial(_, _)
skipSpecial(familyName, idx) ==
    IF idx > 0 /\ familyName[idx + 1] \in {"-", " ", "_", "+"}
    THEN skipSpecial(familyName, idx - 1)
    ELSE idx

removeStyle(familyName, styleName) ==
    LET lF == Len(familyName)
        lS == Len(styleName)
    IN  IF lF > lS /\ SubSeq(familyName, lF - lS + 1, lF) = styleName
        THEN LET idx == skipSpecial(familyName, lF - lS - 1)
             IN  IF idx > 0 THEN SubSeq(familyName, 1, idx + 1) ELSE familyName
        ELSE familyName

\* strings.TrimSpace
RECURSIVE TrimSpace(_)
TrimSpace(str) ==
    IF str = <<>> THEN str
    ELSE IF Head(str) = " " THEN TrimSpace(Tail(str))
    ELSE IF str[Len(str)] = " " THEN TrimSpace(SubSeq(str, 1, Len(str) - 1))
    ELSE str

\* strings.HasPrefix
HasPrefix(str, prefix) ==
    Len(str) >= Len(prefix) /\ SubSeq(str, 1, Len(prefix)) = prefix

\* the loop of CFF.Style over full and familyName, from the indices i and j
RECURSIVE extractStyle(_, _, _, _)
extractStyle(full, familyName, i, j) ==
    IF ~(i < Len(full))
    THEN [failed |-> FALSE, familyName |-> familyName, styleName |-> <<>>]
    ELSE IF j >= Len(familyName)
    THEN [failed |-> TRUE, familyName |-> familyName, styleName |-> <<>>]
    ELSE IF full[i + 1] = familyName[j + 1] THEN extractStyle(full, familyName, i + 1, j + 1)
    ELSE IF full[i + 1] \in {" ", "-"} THEN extractStyle(full, familyName, i + 1, j)
    ELSE IF familyName[j + 1] \in {" ", "-"} THEN extractStyle(full, familyName, i, j + 1)
    ELSE IF j = Len(familyName) /\ i < Len(full)
    THEN [failed |-> FALSE,
          familyName |-> removeStyle(familyName, SubSeq(full, i + 1, Len(full))),
          styleName |-> SubSeq(full, i + 1, Len(full))]
    ELSE [failed |-> FALSE, familyName |-> familyName, styleName |-> <<>>]

Regular == <<"R", "e", "g", "u", "l", "a", "r">>

\* CFF.Style()
Style(f) ==
    LET familyName0 == IF f.PSInfo.FamilyName = <<>> THEN removeSubsetPrefix(f.fontName)
                       ELSE f.PSInfo.FamilyName
        found == IF familyName0 # <<>> THEN extractStyle(f.PSInfo.FullName, familyName0, 0, 0)
                 ELSE [failed |-> FALSE, familyName |-> f.cidFontName, styleName |-> <<>>]
        trimmed == TrimSpace(found.styleName)
        styleName == IF trimmed = <<>> THEN Regular ELSE trimmed
        isBold == f.PSInfo.Weight \in {"Bold", "Black"}
    IN  IF found.failed
        THEN [failed |-> TRUE, isItalic |-> FALSE, isBold |-> FALSE,
              familyName |-> <<>>, styleName |-> <<>>]
        ELSE [failed |-> FALSE,
              isItalic |-> f.PSInfo.ItalicAngle # 0,
              isBold |-> \/ isBold
                         \/ HasPrefix(styleName, <<"B", "o", "l", "d">>)
                         \/ HasPrefix(styleName, <<"B", "l", "a", "c", "k">>),
              familyName |-> found.familyName, styleName |-> styleName]

(***************************************************************************)
(* SpecStyle: Style is asked of a CFF font, whatever its names.            *)
(***************************************************************************)
MaxFamilyLen == 2

NameChars == {"A", "B", " ", "-"}

Names(n) == UNION {[1..k -> NameChars] : k \in 0..n}

InitStyle ==
    /\ InitPatterns
    /\ env = [lang |-> "fr", prg |-> "app"]
    /\ planner = [script |-> "Zyyy"]
    /\ buffer = [Info |-> <<>>]
    /\ config = [loaded |-> FALSE]
    /\ \E family \in Names(MaxFamilyLen), full \in Names(MaxFamilyLen + 1),
          name \in {<<>>, <<"A">>, <<"A", "B", "A", "B", "A", "B", "+", "B">>},
          weight \in {"", "Bold"}, angle \in {0, 1} :
           fonts = [PSInfo |-> [FamilyName |-> family, FullName |-> full,
                                ItalicAngle |-> angle, Weight |-> weight],
                    fontName |-> name, cidFontName |-> <<"C">>]

DoStyle ==
    /\ res.op # "Style"
    /\ res' = [op |-> "Style"] @@ Style(fonts)
    /\ UNCHANGED <<heap, p, q, env, shaping>>

NextStyle == DoStyle

SpecStyle == InitStyle /\ [][NextStyle]_vars

\* the characters of a name that are neither spaces nor dashes
Letters(str) == SelectSeq(str, LAMBDA c : c \notin {" ", "-"})

\* C30: Style does not fail and its style is not empty; when the full name
\* is the family name followed by more, the style is what follows, trimmed;
\* when the full name holds no more letters than the family name, the
\* style is Regular.
C30_StyleNeverFails ==
    res.op = "Style" =>
        LET family == fonts.PSInfo.FamilyName
            full == fonts.PSInfo.FullName
            rest == SubSeq(full, Len(family) + 1, Len(full))
        IN  /\ ~res.failed
            /\ res.styleName # <<>>
            /\ (family # <<>> /\ HasPrefix(full, family) /\ TrimSpace(rest) # <<>>
                    /\ Head(TrimSpace(rest)) # "-")
                   => res.styleName = TrimSpace(rest)
            /\ (family # <<>> /\ Letters(full) = Letters(family)) => res.styleName = Regular

====
